---- MODULE Spec2Model ----
(***************************************************************************)
(* Model of the TorrentClient orchestration layer: the time-of-day         *)
(* bandwidth scheduler (utils/scheduler.py, main.py), the SQLite           *)
(* persistence shim (core/persistence.py), the display model               *)
(* (viewmodels/torrent_list_model.py), the lock-guarded handle table and   *)
(* the alert queue (core/torrent_engine.py, main.py).                      *)
(*                                                                         *)
(* Python values are modelled as follows.  A str that the code parses is a *)
(* sequence of one-character strings; other strs are TLA+ strings.  A      *)
(* value whose Python type varies (a setting value, a default) is tagged:  *)
(* [int |-> n], [str |-> s] or None.  A dict is a function whose domain is *)
(* its key set.  A datetime.time is the number of seconds since midnight,  *)
(* whose order is the order of Python's time objects.                      *)
(***************************************************************************)
EXTENDS Integers, Sequences, FiniteSets, TLC

VARIABLES
    cfg,            \* utils/config.py: ConfigManager.config, the TorrentConfig's fields
    cfg_file,       \* the configuration file: the JSON object in it, None where not modelled
    now,            \* the wall-clock time of day read by the last scheduler tick
    entry,          \* the value pick_limits returned to the last scheduler tick
    ses_settings,   \* the rate limits applied to the external session
    db_torrents,    \* persistence: rows of table torrents, in rowid order
    db_settings,    \* persistence: rows of table settings, in rowid order
    torrents,       \* TorrentListModel.torrents: the status rows, a list of dicts
    shutdown_flag,  \* TorrentEngine._shutdown_flag
    ses_alerts,     \* the alerts the external session holds until pop_alerts
    next_alert,     \* the number the session gives the next alert it raises
    eng_pc,         \* the polling thread's position in TorrentEngine.run
    eng_alerts,     \* run: the popped alerts not yet put on the queue
    alert_queue,    \* TorrentApplication.alert_queue
    ui_pc,          \* the UI thread's position in process_alerts
    ui_alert,       \* process_alerts: the alert taken off the queue
    put_log,        \* the numbers of the alerts put on the queue, in order
    proxy,          \* CustomSortFilterProxyModel: its two filters and the source rows it
                    \* shows; None where not modelled
    handled_log,    \* the numbers of the alerts process_alerts handled, in order
    handles,        \* TorrentEngine.handles: info_hash -> torrent handle
    ses_torrents,   \* the torrents the external session holds
    lock_owner,     \* TorrentEngine._lock: the thread holding it, or "none"
    pc,             \* each calling thread's position in the engine method it runs
    frame,          \* each calling thread's method, arguments and locals
    ses_calls,      \* the engine method in progress, or the last one, its arguments and
                    \* the calls it made on the external session and its handles, where
                    \* the session is a recording double as in tests/test_app.py; None
                    \* where it is not
    last_call       \* the most recent call of an operation, its arguments and result

alertVars == <<shutdown_flag, ses_alerts, next_alert, eng_pc, eng_alerts, alert_queue,
               ui_pc, ui_alert, put_log, handled_log>>

engineVars == <<handles, ses_torrents, lock_owner, pc, frame, ses_calls>>

concVars == <<alertVars, engineVars>>

vars == <<cfg, cfg_file, now, entry, ses_settings, db_torrents, db_settings, torrents, proxy, concVars, last_call>>

None == [none |-> TRUE]
PyInt(n) == [int |-> n]
PyStr(s) == [str |-> s]

Range(f) == {f[i] : i \in DOMAIN f}

(* Bounds *)

MaxSched == 2       \* longest bandwidth schedule list explored
MaxBatch == 2       \* longest list of updates passed to bulk_update
MaxRows == 3        \* most status rows the display model grows to
MaxAlerts == 3      \* most alerts the external session raises in a run
MaxFilterLen == 2   \* longest text typed into the search bar
MaxParts == 3       \* most components of a candidate path passed to sanitize_path

(* utils/scheduler.py *)

Digits == <<"0", "1", "2", "3", "4", "5", "6", "7", "8", "9">>

DigitVal(c) == (CHOOSE i \in 1..10 : Digits[i] = c) - 1

\* int(s) for a str of decimal digits
RECURSIVE int_of_str(_)
int_of_str(s) ==
    IF Len(s) = 0 THEN 0
    ELSE 10 * int_of_str(SubSeq(s, 1, Len(s) - 1)) + DigitVal(s[Len(s)])

\* datetime.time(h, m, s) as seconds since midnight
time(h, m, s) == h * 3600 + m * 60 + s

\* _parse_time: h, m = s.split(":"); time(int(h), int(m))
parse_time(s) ==
    LET colon == CHOOSE i \in 1..Len(s) : s[i] = ":"
        h == SubSeq(s, 1, colon - 1)
        m == SubSeq(s, colon + 1, Len(s))
    IN  time(int_of_str(h), int_of_str(m), 0)

\* ScheduleEntry.from_dict
from_dict(d) ==
    [start |-> parse_time(d.start), end |-> parse_time(d.end), dl |-> d.dl, ul |-> d.ul]

\* a containment test whose end bound is exclusive
entry_matches_exclusive(e, current) ==
    IF e.start <= e.end
    THEN e.start <= current /\ current < e.end
    ELSE current >= e.start \/ current < e.end

\* the test of the loop body of pick_limits: does entry e match 'current'
entry_matches(e, current) ==
    IF e.start <= e.end
    THEN e.start <= current /\ current <= e.end
    ELSE current >= e.start \/ current <= e.end

\* a loop that does not return at the first match: the last match wins
RECURSIVE pick_last_from(_, _, _)
pick_last_from(entries, current, i) ==
    IF i > Len(entries) THEN None
    ELSE LET later == pick_last_from(entries, current, i + 1)
         IN  IF later # None THEN later
             ELSE IF entry_matches(entries[i], current) THEN entries[i]
             ELSE None

\* the for loop of pick_limits, from index i on
RECURSIVE pick_from(_, _, _)
pick_from(entries, current, i) ==
    IF i > Len(entries) THEN None
    ELSE IF entry_matches(entries[i], current) THEN entries[i]
    ELSE pick_from(entries, current, i + 1)

pick_limits(current, schedules) ==
    LET entries == [i \in 1..Len(schedules) |-> from_dict(schedules[i])]
    IN  pick_from(entries, current, 1)

(* core/persistence.py *)

\* str(value) as save_setting stores it: decimal digits of an int, a str as is
RECURSIVE str_of_nat(_)
str_of_nat(n) ==
    IF n < 10 THEN Digits[n + 1]
    ELSE str_of_nat(n \div 10) \o Digits[(n % 10) + 1]

str(v) ==
    IF "int" \in DOMAIN v
    THEN IF v.int < 0 THEN "-" \o str_of_nat(0 - v.int) ELSE str_of_nat(v.int)
    ELSE v.str

\* a plain INSERT into a table without the primary key: the old row stays
insert_into_torrents(rows, r) == Append(rows, r)

\* REPLACE INTO torrents: the row with the same primary key is deleted, the new
\* row is inserted with a fresh rowid
replace_into_torrents(rows, r) ==
    LET Other(x) == x.info_hash # r.info_hash
    IN  Append(SelectSeq(rows, Other), r)

\* a DELETE that lost its WHERE clause
delete_all_torrents(rows, h) == <<>>

\* DELETE FROM torrents WHERE info_hash = ?
delete_from_torrents(rows, h) ==
    LET Other(x) == x.info_hash # h
    IN  SelectSeq(rows, Other)

\* INSERT OR IGNORE: the first value saved for a key stays
insert_or_ignore_settings(rows, r) ==
    IF \E i \in 1..Len(rows) : rows[i].key = r.key THEN rows ELSE Append(rows, r)

\* REPLACE INTO settings (key, value)
replace_into_settings(rows, r) ==
    LET Other(x) == x.key # r.key
    IN  Append(SelectSeq(rows, Other), r)

\* load_torrents_info: [] if the database file does not exist, else
\* SELECT * FROM torrents, or [] on sqlite3.Error
load_torrents_info(rows, exists, fail) ==
    IF ~exists THEN <<>> ELSE IF fail THEN <<>> ELSE rows

\* a load_setting that returns None when the read fails
load_setting_or_none(rows, key, default, exists, fail) ==
    IF ~exists \/ fail THEN None
    ELSE IF \E i \in 1..Len(rows) : rows[i].key = key
         THEN PyStr(rows[CHOOSE i \in 1..Len(rows) : rows[i].key = key].value)
         ELSE default

\* load_setting: default if the database file does not exist, else the value of
\* the row for key, else default; default on sqlite3.Error
load_setting(rows, key, default, exists, fail) ==
    IF ~exists THEN default
    ELSE IF fail THEN default
    ELSE IF \E i \in 1..Len(rows) : rows[i].key = key
         THEN PyStr(rows[CHOOSE i \in 1..Len(rows) : rows[i].key = key].value)
         ELSE default

\* set_global_speed_limits: the byte limits applied to the session
limit_bytes_global(kib) == IF kib > 0 THEN kib * 1024 ELSE 0

\* TorrentConfig.get_libtorrent_settings: the rate limits the session starts with
get_libtorrent_settings(c) ==
    [download_rate_limit |-> c.global_download_limit * 1024,
     upload_rate_limit |-> c.global_upload_limit * 1024]

\* an else branch of apply_bandwidth_schedule that applies no limit at all
tick_limits_no_default(e, c) == IF e # None THEN <<e.dl, e.ul>> ELSE <<0, 0>>

\* apply_bandwidth_schedule: the limits the tick passes to set_global_speed_limits
tick_limits(e, c) ==
    IF e # None THEN <<e.dl, e.ul>>
    ELSE <<c.global_download_limit, c.global_upload_limit>>

(***************************************************************************)
(* Inputs                                                                  *)
(***************************************************************************)

Chars(a, b, c, d, e) == <<a, b, c, d, e>>

\* "23:00" and "07:00" as the config file writes them
TimeStrings == { Chars("2", "3", ":", "0", "0"),
                 Chars("0", "7", ":", "0", "0") }

LimitPairs == { <<200, 50>>, <<0, 100>> }

ScheduleDicts ==
    { [start |-> s, end |-> e, dl |-> l[1], ul |-> l[2]] :
        s \in TimeStrings, e \in TimeStrings, l \in LimitPairs }

ScheduleLists == UNION { [1..n -> ScheduleDicts] : n \in 0..MaxSched }

DefaultLimitPairs == { <<500, 100>> }

\* times of day the clock is read at: 02:00:00, 07:00:00, 07:00:30, 12:00:00,
\* 23:00:00
NowValues == { time(2, 0, 0), time(7, 0, 0), time(7, 0, 30), time(12, 0, 0), time(23, 0, 0) }

InfoHashes == { "h1", "h2" }

\* the threads that call the engine's methods
Callers == { "t1", "t2" }

\* the caller that is the UI thread
UiThread == "t1"
SavePaths == { "/dl", "/dl/sub" }
TorrentTypes == { "magnet", "file" }
Sources == { "magnet:?xt=urn:btih:h", "/t/a.torrent" }

SettingKeys == { "dl_limit", "theme" }
SettingValues == { PyInt(0), PyInt(500), PyStr("dark") }
SettingDefaults == { None, PyInt(0), PyStr("x") }

\* sqlite3.Error raised by a statement: an input of every store operation
DbFails == BOOLEAN

(***************************************************************************)
(* Operations of core/persistence.py                                       *)
(***************************************************************************)

schedVars == <<cfg, cfg_file, now, entry, ses_settings>>
storeVars == <<db_torrents, db_settings>>
modelVars == <<torrents, proxy>>

save_torrent_info(h, p, t, s, fail) ==
    /\ db_torrents' = IF fail THEN db_torrents
                      ELSE replace_into_torrents(db_torrents,
                               [info_hash |-> h, save_path |-> p, type |-> t, source |-> s])
    /\ last_call' = [op |-> "save_torrent_info", info_hash |-> h, save_path |-> p,
                     type |-> t, source |-> s, raised |-> fail,
                     conflict |-> \E i \in 1..Len(db_torrents) : db_torrents[i].info_hash = h]
    /\ UNCHANGED <<schedVars, modelVars, concVars, db_settings>>

remove_torrent_info(h, fail) ==
    /\ db_torrents' = IF fail THEN db_torrents ELSE delete_from_torrents(db_torrents, h)
    /\ last_call' = [op |-> "remove_torrent_info", info_hash |-> h, raised |-> fail,
                     rowcount |-> IF fail THEN 0
                                  ELSE Len(db_torrents) - Len(delete_from_torrents(db_torrents, h))]
    /\ UNCHANGED <<schedVars, modelVars, concVars, db_settings>>

\* os.path.exists(DB_FILE): a file that is absent holds no row
DbFileExists == IF db_torrents = <<>> /\ db_settings = <<>> THEN BOOLEAN ELSE {TRUE}

LoadTorrentsInfo(exists, fail) ==
    /\ last_call' = [op |-> "load_torrents_info", exists |-> exists, failed |-> fail,
                     ret |-> load_torrents_info(db_torrents, exists, fail)]
    /\ UNCHANGED <<schedVars, modelVars, concVars, storeVars>>

save_setting(k, v, fail) ==
    /\ db_settings' = IF fail THEN db_settings
                      ELSE replace_into_settings(db_settings, [key |-> k, value |-> str(v)])
    /\ last_call' = [op |-> "save_setting", key |-> k, value |-> v, raised |-> fail]
    /\ UNCHANGED <<schedVars, modelVars, concVars, db_torrents>>

LoadSetting(k, d, exists, fail) ==
    /\ last_call' = [op |-> "load_setting", key |-> k, default |-> d,
                     exists |-> exists, failed |-> fail,
                     ret |-> load_setting(db_settings, k, d, exists, fail)]
    /\ UNCHANGED <<schedVars, modelVars, concVars, storeVars>>

SaveTorrentInfo ==
    \E h \in InfoHashes, p \in SavePaths, t \in TorrentTypes, s \in Sources, fail \in DbFails :
        save_torrent_info(h, p, t, s, fail)

RemoveTorrentInfo == \E h \in InfoHashes, fail \in DbFails : remove_torrent_info(h, fail)

LoadTorrents == \E exists \in DbFileExists, fail \in DbFails : LoadTorrentsInfo(exists, fail)

SaveSetting == \E k \in SettingKeys, v \in SettingValues, fail \in DbFails : save_setting(k, v, fail)

LoadSettingCall ==
    \E k \in SettingKeys, d \in SettingDefaults, exists \in DbFileExists, fail \in DbFails :
        LoadSetting(k, d, exists, fail)

\* the engine constructed on a store that holds the records rows, its session
\* holding the torrents held under the handles of table
InitEngine(rows, table, held) ==
    /\ now = time(0, 0, 0)
    /\ entry = None
    /\ db_torrents = rows
    /\ db_settings = <<>>
    /\ shutdown_flag = FALSE
    /\ ses_alerts = <<>>
    /\ next_alert = 1
    /\ eng_pc = "test"
    /\ eng_alerts = <<>>
    /\ alert_queue = <<>>
    /\ ui_pc = "idle"
    /\ ui_alert = None
    /\ put_log = <<>>
    /\ handled_log = <<>>
    /\ handles = table
    /\ ses_torrents = held
    /\ lock_owner = "none"
    /\ pc = [t \in Callers |-> "idle"]
    /\ frame = [t \in Callers |-> None]
    /\ last_call = [op |-> "init"]

\* the state after init_db() on a fresh database file, the engine constructed
InitSession == InitEngine(<<>>, <<>>, {})

\* and the display model empty
InitBase ==
    /\ InitSession
    /\ torrents = <<>>
    /\ proxy = None

InitIdle ==
    /\ InitBase
    /\ ses_calls = None

InitStore ==
    /\ InitIdle
    /\ cfg = [bandwidth_schedules |-> <<>>, global_download_limit |-> 0, global_upload_limit |-> 0]
    /\ cfg_file = None
    /\ ses_settings = [download_rate_limit |-> 0, upload_rate_limit |-> 0]

NextTorrentStore == SaveTorrentInfo \/ RemoveTorrentInfo \/ LoadTorrents

SpecTorrentStore == InitStore /\ [][NextTorrentStore]_vars

NextSettingStore == SaveSetting \/ LoadSettingCall

\* every operation of the store
NextStore == NextTorrentStore \/ NextSettingStore

SpecStore == InitStore /\ [][NextStore]_vars

SpecSettingStore == InitStore /\ [][NextSettingStore]_vars

(***************************************************************************)
(* The scheduler tick (main.py) and set_global_speed_limits                *)
(***************************************************************************)

\* which of the two save_setting calls of set_global_speed_limits raises: 0 none
SetLimitsFails == 0..2

\* TorrentEngine.set_global_speed_limits(dl_limit_kib, ul_limit_kib)
set_global_speed_limits(dl, ul, fail) ==
    /\ ses_settings' = [download_rate_limit |-> limit_bytes_global(dl),
                        upload_rate_limit |-> limit_bytes_global(ul)]
    /\ db_settings' =
         IF fail = 1 THEN db_settings
         ELSE LET first == replace_into_settings(db_settings,
                               [key |-> "dl_limit", value |-> str(PyInt(dl))])
              IN  IF fail = 2 THEN first
                  ELSE replace_into_settings(first, [key |-> "ul_limit", value |-> str(PyInt(ul))])

\* TorrentApplication.apply_bandwidth_schedule, the clock reading t
apply_bandwidth_schedule ==
    \E t \in NowValues, fail \in SetLimitsFails :
        LET e == pick_limits(t, cfg.bandwidth_schedules)
            l == tick_limits(e, cfg)
        IN  /\ now' = t
            /\ entry' = e
            /\ set_global_speed_limits(l[1], l[2], fail)
            /\ last_call' = [op |-> "apply_bandwidth_schedule", raised |-> fail # 0]
            /\ UNCHANGED <<cfg, cfg_file, db_torrents, modelVars, concVars>>

Configs ==
    { [bandwidth_schedules |-> s, global_download_limit |-> l[1], global_upload_limit |-> l[2]] :
        s \in ScheduleLists, l \in DefaultLimitPairs }

InitSched ==
    /\ InitIdle
    /\ cfg \in Configs
    /\ cfg_file = None
    /\ ses_settings = get_libtorrent_settings(cfg)

NextSched == apply_bandwidth_schedule

SpecSched == InitSched /\ [][NextSched]_vars

(***************************************************************************)
(* ui/main_window.py: the settings dialog                                  *)
(***************************************************************************)

\* the limits, in KiB/s, that the configuration, the schedules and the dialog's
\* spin boxes take here
LimitValues == { 0, 50, 100, 200, 300, 500 }

\* int(value) of a loaded setting: the default is an int, a stored value the
\* str of one
int_of_setting(v) ==
    IF "int" \in DOMAIN v THEN v.int
    ELSE CHOOSE n \in LimitValues : str_of_nat(n) = v.str

\* open_settings_dialog: the values set_values puts into the spin boxes; each
\* of the two load_setting calls returns the default 0 when its query fails
dialog_values(rows, fail_dl, fail_ul) ==
    [dl_limit |-> int_of_setting(load_setting(rows, "dl_limit", PyInt(0), TRUE, fail_dl)),
     ul_limit |-> int_of_setting(load_setting(rows, "ul_limit", PyInt(0), TRUE, fail_ul))]

\* what the user leaves in the spin boxes
DialogInputs == { <<0, 0>>, <<300, 0>>, <<200, 50>> }

\* open_settings_dialog up to dialog.exec(): the two settings are loaded and
\* shown; the UI thread then runs the dialog's event loop, in which the timers
\* of the application go on firing
OpenSettingsDialog ==
    \E fail_dl \in DbFails, fail_ul \in DbFails :
        LET shown == dialog_values(db_settings, fail_dl, fail_ul)
        IN  /\ pc[UiThread] = "idle"
            /\ pc' = [pc EXCEPT ![UiThread] = "dialog"]
            /\ frame' = [frame EXCEPT ![UiThread] = [op |-> "open_settings_dialog",
                                                     shown |-> shown]]
            /\ last_call' = [op |-> "open_settings_dialog", shown |-> shown]
            /\ UNCHANGED <<schedVars, storeVars, modelVars, alertVars, handles, ses_torrents,
                           lock_owner, ses_calls>>

\* open_settings_dialog from the return of dialog.exec(): accepted, the values
\* the user left are passed to set_global_speed_limits
CloseSettingsDialog ==
    \E accepted \in BOOLEAN, v \in DialogInputs, fail \in SetLimitsFails :
        /\ pc[UiThread] = "dialog"
        /\ IF accepted THEN set_global_speed_limits(v[1], v[2], fail)
           ELSE UNCHANGED <<ses_settings, db_settings>>
        /\ pc' = [pc EXCEPT ![UiThread] = "idle"]
        /\ frame' = [frame EXCEPT ![UiThread] = None]
        /\ last_call' = [op |-> "close_settings_dialog", shown |-> frame[UiThread].shown,
                         accepted |-> accepted, raised |-> accepted /\ fail # 0]
        /\ UNCHANGED <<cfg, cfg_file, now, entry, db_torrents, modelVars, alertVars, handles,
                       ses_torrents, lock_owner, ses_calls>>

\* the configurations the application starts with: limits and no schedule, a
\* schedule over the defaults
StartConfigs ==
    { [bandwidth_schedules |-> <<>>, global_download_limit |-> 0, global_upload_limit |-> 0],
      [bandwidth_schedules |-> <<>>, global_download_limit |-> 500, global_upload_limit |-> 100],
      [bandwidth_schedules |->
           << [start |-> Chars("2", "3", ":", "0", "0"), end |-> Chars("0", "7", ":", "0", "0"),
               dl |-> 200, ul |-> 50] >>,
       global_download_limit |-> 0, global_upload_limit |-> 100] }

\* the engine constructed: the session starts with the limits of the
\* configuration, on a fresh database file
InitLimits ==
    /\ InitIdle
    /\ cfg \in StartConfigs
    /\ cfg_file = None
    /\ ses_settings = get_libtorrent_settings(cfg)

NextLimits == apply_bandwidth_schedule \/ OpenSettingsDialog \/ CloseSettingsDialog

SpecLimits == InitLimits /\ [][NextLimits]_vars

(***************************************************************************)
(* Properties of the scheduler                                             *)
(***************************************************************************)

\* containment as the specification states it, for a parsed window w
InWindow(w, t) ==
    \/ w.start <= w.end /\ w.start <= t /\ t <= w.end
    \/ w.start > w.end /\ (t >= w.start \/ t <= w.end)

\* the indexes of the configured schedule whose window contains 'now'
Containing ==
    { i \in 1..Len(cfg.bandwidth_schedules) : InWindow(from_dict(cfg.bandwidth_schedules[i]), now) }

Ticked == last_call.op = "apply_bandwidth_schedule"

\* C1: pick_limits returns the entry with the smallest list index whose window
\* contains 'now'; when several windows contain 'now' the earlier one is returned.
C1_FirstMatchWins ==
    (Ticked /\ Containing # {}) =>
        \E i \in Containing :
            /\ \A j \in Containing : i <= j
            /\ entry = from_dict(cfg.bandwidth_schedules[i])

\* two windows with different limits contain 'now' and the tick picked one
C1_Witness ==
    /\ Ticked
    /\ Cardinality(Containing) = 2
    /\ cfg.bandwidth_schedules[1].dl # cfg.bandwidth_schedules[2].dl
    /\ entry # None

Window2300to0700 ==
    << [start |-> Chars("2", "3", ":", "0", "0"), end |-> Chars("0", "7", ":", "0", "0"),
        dl |-> 200, ul |-> 50] >>

\* C2: a window with start <= end contains 'now' exactly when start <= now <= end,
\* a window with start > end exactly when now >= start or now <= end: every
\* configured entry, taken as a schedule of its own, is picked at 'now' exactly
\* when it contains 'now' in that sense.  The window 23:00-07:00 is picked at
\* 02:00 (dl = 200) and not at 12:00.
C2_Containment ==
    /\ \A i \in 1..Len(cfg.bandwidth_schedules) :
          LET d == cfg.bandwidth_schedules[i]
              w == from_dict(d)
          IN  /\ w.start <= w.end =>
                    ((pick_limits(now, <<d>>) = w) <=> (w.start <= now /\ now <= w.end))
              /\ w.start > w.end =>
                    ((pick_limits(now, <<d>>) = w) <=> (now >= w.start \/ now <= w.end))
              /\ pick_limits(now, <<d>>) \in {w, None}
    /\ pick_limits(time(2, 0, 0), Window2300to0700).dl = 200
    /\ pick_limits(time(12, 0, 0), Window2300to0700) = None

\* the tick read the clock at the inclusive end 07:00:00 of an overnight window
\* and picked that window
C2_Witness ==
    /\ Ticked
    /\ now = time(7, 0, 0)
    /\ Len(cfg.bandwidth_schedules) = 1
    /\ entry # None
    /\ entry.start > entry.end
    /\ entry.end = now

\* the session's rate limits are those of dl and ul KiB/s
Applied(dl, ul) ==
    /\ ses_settings.download_rate_limit = dl * 1024
    /\ ses_settings.upload_rate_limit = ul * 1024

\* C3: when no window of the schedule contains 'now' pick_limits returns None and
\* the tick applies the configured default limits to the session; when a window
\* contains 'now' the tick applies the dl and ul of the entry picked.
C3_DefaultsWhenNoMatch ==
    Ticked =>
        /\ Containing = {} =>
              /\ entry = None
              /\ Applied(cfg.global_download_limit, cfg.global_upload_limit)
        /\ Containing # {} =>
              /\ entry # None
              /\ \E i \in Containing :
                    /\ entry.dl = cfg.bandwidth_schedules[i].dl
                    /\ entry.ul = cfg.bandwidth_schedules[i].ul
              /\ Applied(entry.dl, entry.ul)

\* a non-empty schedule matched nothing and the tick applied non-zero defaults
C3_Witness ==
    /\ Ticked
    /\ Len(cfg.bandwidth_schedules) > 0
    /\ Containing = {}
    /\ entry = None
    /\ cfg.global_download_limit = 500
    /\ ses_settings.download_rate_limit = 500 * 1024

(***************************************************************************)
(* viewmodels/torrent_list_model.py                                        *)
(***************************************************************************)

\* dict.update: the keys of u take u's values, the other keys of r stay
dict_update(r, u) ==
    [k \in (DOMAIN r) \cup (DOMAIN u) |-> IF k \in DOMAIN u THEN u[k] ELSE r[k]]

\* the indexes of the rows whose info_hash is h
rows_of(rows, h) == { i \in 1..Len(rows) : rows[i].info_hash = h }

\* the first row the loops of update_torrent_status and remove_torrent stop at
first_row_of(rows, h) == CHOOSE i \in rows_of(rows, h) : \A j \in rows_of(rows, h) : i <= j

\* an update that assigns the row instead of merging into it
update_torrent_status_assign(rows, u) ==
    IF rows_of(rows, u.info_hash) # {}
    THEN [rows EXCEPT ![first_row_of(rows, u.info_hash)] = u]
    ELSE Append(rows, u)

\* TorrentListModel.update_torrent_status
update_torrent_status(rows, u) ==
    IF rows_of(rows, u.info_hash) # {}
    THEN [rows EXCEPT ![first_row_of(rows, u.info_hash)] = dict_update(@, u)]
    ELSE Append(rows, u)

\* TorrentListModel.remove_torrent
model_remove_torrent(rows, h) ==
    IF rows_of(rows, h) # {}
    THEN LET i == first_row_of(rows, h)
         IN  SubSeq(rows, 1, i - 1) \o SubSeq(rows, i + 1, Len(rows))
    ELSE rows

\* info_hash_to_index of bulk_update: built once, a later row of the same
\* info_hash overwrites an earlier one
info_hash_to_index(rows) ==
    [h \in { rows[i].info_hash : i \in 1..Len(rows) } |->
        CHOOSE i \in rows_of(rows, h) : \A j \in rows_of(rows, h) : j <= i]

\* the for loop of bulk_update from update k on, index the map built before it
RECURSIVE bulk_apply(_, _, _, _)
bulk_apply(rows, index, updates, k) ==
    IF k > Len(updates) THEN rows
    ELSE LET u == updates[k]
         IN  IF u.info_hash \in DOMAIN index
             THEN bulk_apply([rows EXCEPT ![index[u.info_hash]] = dict_update(@, u)],
                             index, updates, k + 1)
             ELSE bulk_apply(Append(rows, u), index, updates, k + 1)

\* TorrentListModel.bulk_update
bulk_update(rows, updates) ==
    IF updates = <<>> THEN rows
    ELSE bulk_apply(rows, info_hash_to_index(rows), updates, 1)

Names == { "a", "b" }

\* status updates: an info_hash, and a name or none
StatusDicts ==
    { [info_hash |-> h] : h \in InfoHashes }
        \cup { [info_hash |-> h, name |-> n] : h \in InfoHashes, n \in Names }

\* lists of updates, each update a dict object of its own as process_alerts
\* builds them
Batches == UNION { [1..n -> StatusDicts] : n \in 0..MaxBatch }

UpdateTorrentStatus ==
    \E u \in StatusDicts :
        /\ Len(update_torrent_status(torrents, u)) <= MaxRows
        /\ torrents' = update_torrent_status(torrents, u)
        /\ UNCHANGED proxy
        /\ last_call' = [op |-> "update_torrent_status", update |-> u]
        /\ UNCHANGED <<schedVars, storeVars, concVars>>

BulkUpdate ==
    \E b \in Batches :
        /\ Len(bulk_update(torrents, b)) <= MaxRows
        /\ torrents' = bulk_update(torrents, b)
        /\ UNCHANGED proxy
        /\ last_call' = [op |-> "bulk_update", count |-> Len(b)]
        /\ UNCHANGED <<schedVars, storeVars, concVars>>

RemoveRow ==
    \E h \in InfoHashes :
        /\ torrents' = model_remove_torrent(torrents, h)
        /\ UNCHANGED proxy
        /\ last_call' = [op |-> "remove_torrent", info_hash |-> h]
        /\ UNCHANGED <<schedVars, storeVars, concVars>>

NextModel == UpdateTorrentStatus \/ BulkUpdate \/ RemoveRow

SpecModel == InitStore /\ [][NextModel]_vars

(***************************************************************************)
(* Properties of the display model                                         *)
(***************************************************************************)

\* C6: applying a status update, or a batch of updates, twice in a row leaves
\* the rows as applying it once does.
C6_Idempotent ==
    /\ \A u \in StatusDicts :
          update_torrent_status(update_torrent_status(torrents, u), u)
              = update_torrent_status(torrents, u)
    /\ \A b \in Batches :
          bulk_update(bulk_update(torrents, b), b) = bulk_update(torrents, b)

\* C7: update_torrent_status with an identifier that has a row merges the update
\* into that row in place: the row count, the row's position and all other rows
\* are unchanged, the fields of the update take its values and the other fields
\* keep theirs; with an identifier that has no row it appends the update as one
\* new row at the end.
C7_UpdateInPlaceOrAppend ==
    [][ last_call'.op = "update_torrent_status" =>
          LET u == last_call'.update
              mine == rows_of(torrents, u.info_hash)
          IN  /\ mine # {} =>
                    /\ Len(torrents') = Len(torrents)
                    /\ \E i \in mine :
                          /\ \A j \in 1..Len(torrents) : j # i => torrents'[j] = torrents[j]
                          /\ DOMAIN torrents'[i] = (DOMAIN torrents[i]) \cup (DOMAIN u)
                          /\ \A k \in DOMAIN u : torrents'[i][k] = u[k]
                          /\ \A k \in (DOMAIN torrents[i]) \ (DOMAIN u) :
                                torrents'[i][k] = torrents[i][k]
              /\ mine = {} =>
                    /\ Len(torrents') = Len(torrents) + 1
                    /\ SubSeq(torrents', 1, Len(torrents)) = torrents
                    /\ torrents'[Len(torrents')] = u
      ]_vars

\* an update without a name reached a row that has one, beside a row of the
\* other identifier
C7_Witness ==
    /\ last_call.op = "update_torrent_status"
    /\ "name" \notin DOMAIN last_call.update
    /\ Len(torrents) = 2
    /\ torrents[1].info_hash # torrents[2].info_hash
    /\ \E i \in 1..2 :
          /\ torrents[i].info_hash = last_call.update.info_hash
          /\ "name" \in DOMAIN torrents[i]

(***************************************************************************)
(* The alert path: TorrentEngine.run and TorrentApplication.process_alerts *)
(***************************************************************************)

RECURSIVE GCD(_, _)
GCD(a, b) == IF b = 0 THEN a ELSE GCD(b, a % b)

\* the float a / b, for b > 0, as a fraction in lowest terms
Frac(a, b) == [num |-> a \div GCD(a, b), den |-> b \div GCD(a, b)]

\* float('inf')
Inf == [inf |-> TRUE]

\* ALERT_TYPES.get(status.state, 'unknown')
alert_type_label(state) ==
    CASE state = "checking_files" -> "checking"
      [] state = "downloading_metadata" -> "metadata"
      [] state = "downloading" -> "downloading"
      [] state = "finished" -> "finished"
      [] state = "seeding" -> "seeding"
      [] state = "allocating" -> "allocating"
      [] state = "checking_resume_data" -> "checking resume"
      [] OTHER -> "unknown"

\* a label that is paused whenever the paused flag is set
state_str_of_flag(status) ==
    IF status.paused THEN "paused" ELSE alert_type_label(status.state)

\* process_alerts: the state label of a status. status.torrent_flags is
\* hasattr(lt, 'torrent_flags') of the libtorrent build the status comes from,
\* status.paused the paused flag of the torrent; a build without torrent_flags
\* never gives the label paused
state_str_of(status) ==
    LET label == alert_type_label(status.state)
    IN  IF status.torrent_flags /\ status.paused /\ label \notin {"seeding", "finished"}
        THEN "paused"
        ELSE label

\* process_alerts: the status row built from one torrent status
status_row(status) ==
    [info_hash |-> status.info_hash,
     name |-> status.name,
     progress |-> status.progress,
     download_rate |-> status.download_rate,
     upload_rate |-> status.upload_rate,
     state_str |-> state_str_of(status),
     eta |-> IF status.download_rate > 0
             THEN Frac(status.total_wanted - status.total_done, status.download_rate)
             ELSE Inf,
     ratio |-> IF status.total_done > 0
               THEN Frac(status.total_upload, status.total_done)
               ELSE Frac(0, 1)]

\* a loop body that passes on the first status of a state update only
handle_alert_first(rows, alert) ==
    IF alert.type = "state_update_alert"
    THEN bulk_update(rows, <<status_row(alert.status[1])>>)
    ELSE rows

\* process_alerts: the body of the loop for one alert
handle_alert(rows, alert) ==
    IF alert.type = "state_update_alert"
    THEN bulk_update(rows, [i \in 1..Len(alert.status) |-> status_row(alert.status[i])])
    ELSE rows

\* a LifoQueue's get: the alert put last
queue_get_last(q) == [alert |-> q[Len(q)], rest |-> SubSeq(q, 1, Len(q) - 1)]

\* Queue.get: the alert put first
queue_get(q) == [alert |-> Head(q), rest |-> Tail(q)]

\* the info_hash object of a handle or a status, and str(info_hash)
Sha1(h) == [sha1 |-> h]
hex_of(info_hash) == info_hash.sha1

StatusH1 ==
    [info_hash |-> Sha1("h1"), name |-> "a", state |-> "downloading", paused |-> FALSE,
     torrent_flags |-> TRUE,
     progress |-> Frac(1, 2), download_rate |-> 100, upload_rate |-> 10,
     total_wanted |-> 1000, total_done |-> 500, total_upload |-> 250]

StatusH2 ==
    [info_hash |-> Sha1("h2"), name |-> "b", state |-> "seeding", paused |-> TRUE,
     torrent_flags |-> TRUE,
     progress |-> Frac(1, 1), download_rate |-> 0, upload_rate |-> 20,
     total_wanted |-> 0, total_done |-> 0, total_upload |-> 0]

\* what the session raises: the alert's type and, for a state update, its statuses
AlertBodies ==
    { [type |-> "torrent_finished_alert", status |-> <<>>],
      [type |-> "add_torrent_alert", status |-> <<>>],
      [type |-> "state_update_alert", status |-> <<StatusH1>>],
      [type |-> "state_update_alert", status |-> <<StatusH2, StatusH1>>] }

Ids(q) == [i \in 1..Len(q) |-> q[i].id]

otherThanAlerts == <<schedVars, storeVars, engineVars>>

\* the external session raises an alert
SessionRaise ==
    \E b \in AlertBodies :
        /\ next_alert <= MaxAlerts
        /\ ses_alerts' = Append(ses_alerts, [id |-> next_alert, type |-> b.type, status |-> b.status])
        /\ next_alert' = next_alert + 1
        /\ UNCHANGED <<otherThanAlerts, modelVars, last_call, shutdown_flag, eng_pc, eng_alerts,
                       alert_queue, ui_pc, ui_alert, put_log, handled_log>>

\* a loop that does not look at the flag
RunForever ==
    /\ eng_pc = "test"
    /\ eng_pc' = "wait"
    /\ UNCHANGED <<otherThanAlerts, modelVars, last_call, shutdown_flag, ses_alerts, next_alert,
                   eng_alerts, alert_queue, ui_pc, ui_alert, put_log, handled_log>>

\* run: while not self._shutdown_flag.is_set()
RunTest ==
    /\ eng_pc = "test"
    /\ eng_pc' = IF shutdown_flag THEN "stopped" ELSE "wait"
    /\ UNCHANGED <<otherThanAlerts, modelVars, last_call, shutdown_flag, ses_alerts, next_alert,
                   eng_alerts, alert_queue, ui_pc, ui_alert, put_log, handled_log>>

\* run: wait_for_alert returned; alerts = self.ses.pop_alerts()
RunPop ==
    /\ eng_pc = "wait"
    /\ eng_alerts' = ses_alerts
    /\ ses_alerts' = <<>>
    /\ eng_pc' = "put"
    /\ UNCHANGED <<otherThanAlerts, modelVars, last_call, shutdown_flag, next_alert,
                   alert_queue, ui_pc, ui_alert, put_log, handled_log>>

\* run: the session call raised; the error is logged and the loop sleeps
RunError ==
    /\ eng_pc = "wait"
    /\ eng_pc' = "test"
    /\ UNCHANGED <<otherThanAlerts, modelVars, last_call, shutdown_flag, ses_alerts, next_alert,
                   eng_alerts, alert_queue, ui_pc, ui_alert, put_log, handled_log>>

\* run: for alert in alerts: self.alert_queue.put(alert)
RunPut ==
    /\ eng_pc = "put"
    /\ eng_alerts # <<>>
    /\ alert_queue' = Append(alert_queue, Head(eng_alerts))
    /\ put_log' = Append(put_log, Head(eng_alerts).id)
    /\ eng_alerts' = Tail(eng_alerts)
    /\ UNCHANGED <<otherThanAlerts, modelVars, last_call, shutdown_flag, ses_alerts, next_alert,
                   eng_pc, ui_pc, ui_alert, handled_log>>

\* run: post_torrent_updates(), then the sleep before the next test
RunPost ==
    /\ eng_pc = "put"
    /\ eng_alerts = <<>>
    /\ eng_pc' = "test"
    /\ UNCHANGED <<otherThanAlerts, modelVars, last_call, shutdown_flag, ses_alerts, next_alert,
                   eng_alerts, alert_queue, ui_pc, ui_alert, put_log, handled_log>>

\* TorrentApplication.shutdown, called when the event loop has returned: the
\* engine's shutdown sets the flag
Shutdown ==
    /\ ~shutdown_flag
    /\ ui_pc = "idle"
    /\ shutdown_flag' = TRUE
    /\ last_call' = [op |-> "shutdown", returned |-> FALSE]
    /\ UNCHANGED <<otherThanAlerts, modelVars, ses_alerts, next_alert, eng_pc,
                   eng_alerts, alert_queue, ui_pc, ui_alert, put_log, handled_log>>

\* shutdown: self.join(timeout=5.0) returns, the thread ended or the time out
ShutdownJoin ==
    /\ last_call = [op |-> "shutdown", returned |-> FALSE]
    /\ last_call' = [op |-> "shutdown", returned |-> TRUE, is_alive |-> eng_pc # "stopped"]
    /\ UNCHANGED <<otherThanAlerts, modelVars, alertVars>>

\* the alert timer fires while the event loop runs: process_alerts is entered
ProcessAlertsEnter ==
    /\ ui_pc = "idle"
    /\ ~shutdown_flag
    /\ ui_pc' = "loop"
    /\ UNCHANGED <<otherThanAlerts, modelVars, last_call, shutdown_flag, ses_alerts, next_alert,
                   eng_pc, eng_alerts, alert_queue, ui_alert, put_log, handled_log>>

\* process_alerts: while not self.alert_queue.empty(): alert = self.alert_queue.get()
ProcessAlertsGet ==
    /\ ui_pc = "loop"
    /\ IF alert_queue = <<>>
       THEN /\ ui_pc' = "idle"
            /\ UNCHANGED <<alert_queue, ui_alert>>
       ELSE /\ ui_alert' = queue_get(alert_queue).alert
            /\ alert_queue' = queue_get(alert_queue).rest
            /\ ui_pc' = "handle"
    /\ UNCHANGED <<otherThanAlerts, modelVars, last_call, shutdown_flag, ses_alerts, next_alert,
                   eng_pc, eng_alerts, put_log, handled_log>>

\* process_alerts: the try block for the alert taken; an exception raised in
\* it, before the display model is reached, is caught and logged
ProcessAlertsHandle ==
    \E raised \in BOOLEAN :
        /\ ui_pc = "handle"
        /\ torrents' = IF raised THEN torrents ELSE handle_alert(torrents, ui_alert)
        /\ UNCHANGED proxy
        /\ handled_log' = Append(handled_log, ui_alert.id)
        /\ last_call' = [op |-> "process_alerts", alert |-> ui_alert.id, raised |-> raised]
        /\ ui_alert' = None
        /\ ui_pc' = "loop"
        /\ UNCHANGED <<otherThanAlerts, shutdown_flag, ses_alerts, next_alert,
                       eng_pc, eng_alerts, alert_queue, put_log>>

NextAlerts ==
    \/ SessionRaise \/ RunTest \/ RunPop \/ RunError \/ RunPut \/ RunPost \/ Shutdown
    \/ ShutdownJoin
    \/ ProcessAlertsEnter \/ ProcessAlertsGet \/ ProcessAlertsHandle

SpecAlerts == InitStore /\ [][NextAlerts]_vars

\* the polling thread is scheduled and each wait on the session returns; the
\* join of shutdown returns
SpecShutdown ==
    /\ InitStore
    /\ [][NextAlerts]_vars
    /\ WF_vars(RunTest)
    /\ WF_vars(RunPop \/ RunError)
    /\ WF_vars(RunPut)
    /\ WF_vars(RunPost)
    /\ WF_vars(ShutdownJoin)

\* the states of lt.torrent_status, among them one ALERT_TYPES does not list
EngineStates ==
    { "checking_files", "downloading_metadata", "downloading", "finished", "seeding",
      "allocating", "checking_resume_data", "queued_for_checking" }

\* torrent statuses: every state, paused or not, of a libtorrent build with and
\* without torrent_flags, with and without a download rate, bytes done and
\* bytes uploaded
StatusInputs ==
    { [info_hash |-> Sha1("h1"), name |-> "a", state |-> st, paused |-> p,
       torrent_flags |-> f, progress |-> Frac(1, 2), download_rate |-> r, upload_rate |-> 10,
       total_wanted |-> 1000, total_done |-> d, total_upload |-> u] :
        st \in EngineStates, p \in BOOLEAN, f \in BOOLEAN, r \in {0, 100},
        d \in {0, 500, 1000}, u \in {0, 250} }

\* process_alerts builds the status row of one torrent status
BuildStatusRow ==
    \E status \in StatusInputs :
        /\ last_call' = [op |-> "status_row", status |-> status, row |-> status_row(status)]
        /\ UNCHANGED <<schedVars, storeVars, modelVars, concVars>>

NextLabel == BuildStatusRow

SpecLabel == InitStore /\ [][NextLabel]_vars

(***************************************************************************)
(* Properties of the alert path                                            *)
(***************************************************************************)

\* the alert process_alerts has taken off the queue and not yet handled
InHand == IF ui_pc = "handle" THEN <<ui_alert.id>> ELSE <<>>

\* C5: the alerts are handled in exactly the order in which the polling thread
\* put them on the queue, each at most once, and none is handled that was not
\* put: the alerts handled, the one in hand and the ones queued are, in this
\* order, the alerts put, and no alert was put twice.
C5_ArrivalOrder ==
    /\ handled_log \o InHand \o Ids(alert_queue) = put_log
    /\ \A i, j \in 1..Len(put_log) : i # j => put_log[i] # put_log[j]
    /\ \A i, j \in 1..Len(handled_log) : i # j => handled_log[i] # handled_log[j]

\* two alerts were handled while the polling thread was putting a third
C5_Witness ==
    /\ Len(handled_log) = 2
    /\ Len(put_log) = 3
    /\ Len(alert_queue) = 1
    /\ ui_pc = "loop"

(***************************************************************************)
(* utils/security.py                                                       *)
(***************************************************************************)

\* the process's working directory, against which Path.resolve resolves
Cwd == <<"app">>

\* a pathlib.Path: whether it is absolute, and its components
RelPath(parts) == [abs |-> FALSE, parts |-> parts]
AbsPath(parts) == [abs |-> TRUE, parts |-> parts]

\* Path.resolve on a file system without symbolic links: "." is dropped and
\* ".." drops the component before it, staying at the root
RECURSIVE normalize(_, _)
normalize(parts, acc) ==
    IF parts = <<>> THEN acc
    ELSE IF Head(parts) = "." THEN normalize(Tail(parts), acc)
    ELSE IF Head(parts) = ".."
         THEN normalize(Tail(parts), IF acc = <<>> THEN acc ELSE SubSeq(acc, 1, Len(acc) - 1))
    ELSE normalize(Tail(parts), Append(acc, Head(parts)))

resolve(p) == normalize(IF p.abs THEN p.parts ELSE Cwd \o p.parts, <<>>)

\* the components of an absolute path, each after a separator
RECURSIVE join_parts(_)
join_parts(parts) ==
    IF parts = <<>> THEN ""
    ELSE join_parts(SubSeq(parts, 1, Len(parts) - 1)) \o "/" \o parts[Len(parts)]

\* str(path) of a resolved path; the root is "/"
path_str(parts) == IF parts = <<>> THEN "/" ELSE join_parts(parts)

\* a test of depth only
is_relative_to_depth(cand, base) == Len(base) <= Len(cand)

\* cand.relative_to(base) does not raise
is_relative_to(cand, base) ==
    Len(base) <= Len(cand) /\ SubSeq(cand, 1, Len(base)) = base

sanitize_path(base_directory, candidate_path) ==
    LET base == resolve(base_directory)
        cand == IF ~candidate_path.abs
                THEN resolve(AbsPath(base \o candidate_path.parts))
                ELSE resolve(candidate_path)
    IN  IF is_relative_to(cand, base) THEN PyStr(path_str(cand)) ELSE None

\* calls of sanitize_path: base directories (relative to the working directory,
\* absolute, the root) and candidates of up to MaxParts components
PathComponents == { "..", ".", "downloads", "sub" }
PartLists == UNION { [1..n -> PathComponents] : n \in 0..MaxParts }
BaseDirectories == { RelPath(<<"downloads">>), AbsPath(<<"downloads">>), AbsPath(<<>>) }
CandidatePaths == { RelPath(l) : l \in PartLists } \cup { AbsPath(l) : l \in PartLists }

SanitizePath ==
    \E base_directory \in BaseDirectories, candidate_path \in CandidatePaths :
        /\ last_call' = [op |-> "sanitize_path", base_directory |-> base_directory,
                         candidate_path |-> candidate_path,
                         ret |-> sanitize_path(base_directory, candidate_path)]
        /\ UNCHANGED <<schedVars, modelVars, concVars, storeVars>>

NextSanitize == SanitizePath

SpecSanitize == InitStore /\ [][NextSanitize]_vars

(***************************************************************************)
(* Properties of sanitize_path                                             *)
(***************************************************************************)

IsName(c) == c \notin { ".", ".." }

CountIn(parts, a, b, P(_)) == Cardinality({ j \in a..b : P(parts[j]) })

IsDotDot(c) == c = ".."

\* component i of an absolute path names a directory of the place the path
\* leads to: it is a name, and no ".." after it climbs back over it
Survives(parts, i) ==
    /\ IsName(parts[i])
    /\ \A j \in (i + 1)..Len(parts) :
          CountIn(parts, i + 1, j, IsDotDot) <= CountIn(parts, i + 1, j, IsName)

\* the place an absolute path leads to, as the names from the root
Place(parts) ==
    LET S == { i \in 1..Len(parts) : Survives(parts, i) }
    IN  [k \in 1..Cardinality(S) |->
            parts[CHOOSE i \in S : Cardinality({ j \in S : j <= i }) = k]]

PlaceOfBase(b) == Place(IF b.abs THEN b.parts ELSE Cwd \o b.parts)

\* the candidate resolved against the base
PlaceOfCandidate(b, c) == Place(IF c.abs THEN c.parts ELSE PlaceOfBase(b) \o c.parts)

\* a place lies in a directory: the directory's names lead to it
LiesIn(place, dir) ==
    /\ Len(dir) <= Len(place)
    /\ \A i \in 1..Len(dir) : place[i] = dir[i]

\* C11: sanitize_path returns None exactly when the candidate, resolved against
\* the base, lies outside the resolved base directory; otherwise it returns the
\* resolved absolute path of the candidate, which lies in the base.
C11_SanitizePath ==
    last_call.op = "sanitize_path" =>
        LET b == last_call.base_directory
            c == last_call.candidate_path
        IN  /\ last_call.ret = None <=> ~LiesIn(PlaceOfCandidate(b, c), PlaceOfBase(b))
            /\ last_call.ret # None =>
                  /\ last_call.ret = PyStr(path_str(PlaceOfCandidate(b, c)))
                  /\ LiesIn(PlaceOfCandidate(b, c), PlaceOfBase(b))

\* a relative candidate that leaves the base through ".." and comes back into
\* it was accepted
C11_Witness ==
    /\ last_call.op = "sanitize_path"
    /\ last_call.base_directory = RelPath(<<"downloads">>)
    /\ last_call.candidate_path = RelPath(<<"..", "downloads", "sub">>)
    /\ last_call.ret = PyStr("/app/downloads/sub")

(***************************************************************************)
(* core/torrent_engine.py: the handle table and its lock                   *)
(***************************************************************************)

\* config_manager.get_config().download_path
DownloadPath == RelPath(<<"downloads">>)

\* sanitize_path(base_dir, save_path) or sanitize_path(base_dir, ".")
safe_save_of(save_path) ==
    IF sanitize_path(DownloadPath, save_path) # None
    THEN sanitize_path(DownloadPath, save_path)
    ELSE sanitize_path(DownloadPath, RelPath(<<".">>))

\* the sources a caller passes: a torrent file that exists, one that does not,
\* a magnet link, a link that is not a magnet link
FileSources == { "/t/a.torrent", "/t/missing.torrent" }
MagnetSources == { "magnet:?xt=urn:btih:h2", "http://tracker/x" }

\* os.path.exists(torrent_file_path)
path_exists(source) == source = "/t/a.torrent"

\* a test every link passes
is_magnet_any(source) == TRUE

\* magnet_link.startswith('magnet:')
is_magnet(source) == source = "magnet:?xt=urn:btih:h2"

\* handle.info_hash() of the torrent the session adds for a source
info_hash_of(source) == IF source = "/t/a.torrent" THEN Sha1("h1") ELSE Sha1("h2")

\* a save directory inside the download directory, and one outside it
SavePathInputs == { RelPath(<<"sub">>), RelPath(<<"..", "etc">>) }

\* a lock that every thread can always take
lock_always_free == TRUE

\* with self._lock: the lock can be taken
lock_is_free == lock_owner = "none"

\* the pcs at which a thread is inside "with self._lock"
InLock == { "add_cs", "op_cs" }

\* the methods whose first statement is "with self._lock", by what the block does
HandleOps ==
    { "pause_torrent", "resume_torrent", "set_file_priority", "get_file_priorities",
      "set_torrent_download_limit", "set_torrent_upload_limit" }

ListOps == { "get_torrent_files", "get_torrent_trackers", "get_torrent_peers" }

LockedOps == HandleOps \cup ListOps \cup {"remove_torrent"}

notEngine == <<schedVars, modelVars, alertVars, last_call>>

\* dict item assignment and dict.pop
dict_set(d, k, v) == [x \in (DOMAIN d) \cup {k} |-> IF x = k THEN v ELSE d[x]]
dict_pop(d, k) == [x \in (DOMAIN d) \ {k} |-> d[x]]

\* a Python list returned to the caller
PyList(l) == [list |-> l]

\* the recording of the calls on the external session: a method starts with no
\* call made, and each call is added
begin_call(op, args) ==
    IF ses_calls = None THEN None ELSE [op |-> op, args |-> args, calls |-> <<>>]
with_call(c) ==
    IF ses_calls = None THEN None ELSE [ses_calls EXCEPT !.calls = Append(@, c)]
add_call(op, source, save_path, raised) ==
    IF ses_calls = None THEN None
    ELSE [op |-> op, args |-> [source |-> source, save_path |-> save_path],
          calls |-> <<[call |-> "add_torrent", source |-> source,
                       save_path |-> safe_save_of(save_path).str, raised |-> raised]>>]

\* the return of a method to its caller: the thread holds the value returned
Return(t, ret) ==
    /\ pc' = [pc EXCEPT ![t] = "idle"]
    /\ frame' = [frame EXCEPT ![t] = [ret |-> ret]]

\* the exceptions of the try block of an add: none; one raised before the
\* session is called, by os.makedirs of the save directory, lt.torrent_info or
\* lt.parse_magnet_uri; one raised by the session's add_torrent
AddErrors == { "none", "before", "session" }

\* add_torrent_from_file / add_torrent_by_magnet up to the session's add_torrent:
\* ok is the check of the source, error the exception raised; one raised before
\* the session's add_torrent returns None with no call made
AddBegin(t, op, type, source, ok, save_path, error) ==
    /\ pc[t] = "idle"
    /\ IF ~ok \/ safe_save_of(save_path) = None \/ error = "before"
       THEN /\ Return(t, None)
            /\ ses_calls' = begin_call(op, [source |-> source, save_path |-> save_path])
            /\ UNCHANGED ses_torrents
       ELSE IF error = "session"
       THEN /\ Return(t, None)
            /\ ses_calls' = add_call(op, source, save_path, TRUE)
            /\ UNCHANGED ses_torrents
       ELSE /\ ses_torrents' = ses_torrents \cup {info_hash_of(source)}
            /\ ses_calls' = add_call(op, source, save_path, FALSE)
            /\ frame' = [frame EXCEPT ![t] =
                            [op |-> op, type |-> type, source |-> source,
                             save_path |-> save_path, info_hash |-> info_hash_of(source)]]
            /\ pc' = [pc EXCEPT ![t] = "add_lock"]
    /\ UNCHANGED <<notEngine, storeVars, handles, lock_owner>>

AddTorrentFromFile(t) ==
    \E source \in FileSources, save_path \in SavePathInputs, error \in AddErrors :
        AddBegin(t, "add_torrent_from_file", "file", source, path_exists(source),
                 save_path, error)

AddTorrentByMagnet(t) ==
    \E source \in MagnetSources, save_path \in SavePathInputs, error \in AddErrors :
        AddBegin(t, "add_torrent_by_magnet", "magnet", source, is_magnet(source),
                 save_path, error)

\* add: with self._lock is entered
AddAcquire(t) ==
    /\ pc[t] = "add_lock"
    /\ lock_is_free
    /\ lock_owner' = t
    /\ pc' = [pc EXCEPT ![t] = "add_cs"]
    /\ UNCHANGED <<notEngine, storeVars, handles, ses_torrents, frame, ses_calls>>

\* add: self.handles[info_hash] = handle, and the lock's release
AddInsert(t) ==
    /\ pc[t] = "add_cs"
    /\ handles' = dict_set(handles, frame[t].info_hash, frame[t].info_hash)
    /\ lock_owner' = "none"
    /\ pc' = [pc EXCEPT ![t] = "add_save"]
    /\ UNCHANGED <<notEngine, storeVars, ses_torrents, frame, ses_calls>>

\* add, not loading: persistence.save_torrent_info; its error is caught and
\* None returned
AddPersist(t) ==
    \E fail \in DbFails :
        /\ pc[t] = "add_save"
        /\ db_torrents' =
              IF fail THEN db_torrents
              ELSE replace_into_torrents(db_torrents,
                       [info_hash |-> hex_of(frame[t].info_hash),
                        save_path |-> safe_save_of(frame[t].save_path).str,
                        type |-> frame[t].type, source |-> frame[t].source])
        /\ Return(t, IF fail THEN None ELSE frame[t].info_hash)
        /\ UNCHANGED <<notEngine, db_settings, handles, ses_torrents, lock_owner, ses_calls>>

\* the limits, in KiB/s, passed to the two per-torrent limit methods and to
\* set_global_speed_limits
LimitInputs == { 0 - 1, 0, 50 }

LimitOps == { "set_torrent_download_limit", "set_torrent_upload_limit" }

\* the arguments of a locked method besides the identifier
ArgsOf(op) ==
    IF op = "remove_torrent" THEN { [remove_data |-> d] : d \in BOOLEAN }
    ELSE IF op \in LimitOps THEN { [limit_kib |-> k] : k \in LimitInputs }
    ELSE { [none |-> TRUE] }

\* a call of a locked method: the thread enters the method's "with self._lock",
\* which it can do when the lock is free
CallLocked(t) ==
    \E op \in LockedOps, h \in InfoHashes :
        \E args \in ArgsOf(op) :
            /\ pc[t] = "idle"
            /\ lock_is_free
            /\ lock_owner' = t
            /\ frame' = [frame EXCEPT ![t] = [op |-> op, info_hash |-> Sha1(h), args |-> args]]
            /\ pc' = [pc EXCEPT ![t] = "op_cs"]
            /\ ses_calls' = begin_call(op, [info_hash |-> Sha1(h), more |-> args])
            /\ UNCHANGED <<notEngine, storeVars, handles, ses_torrents>>

\* every handle method calling pause
handle_call_pause(op) == "pause"

\* the method of a torrent handle that each handle method calls
handle_call_of(op) ==
    CASE op = "pause_torrent" -> "pause"
      [] op = "resume_torrent" -> "resume"
      [] op = "set_file_priority" -> "file_priority"
      [] op = "get_file_priorities" -> "get_file_priorities"
      [] op = "set_torrent_download_limit" -> "set_download_limit"
      [] op = "set_torrent_upload_limit" -> "set_upload_limit"

\* a per-torrent limit of 0 bytes for no limit
limit_bytes_torrent_zero(limit_kib) == IF limit_kib > 0 THEN limit_kib * 1024 ELSE 0

\* set_torrent_download_limit / set_torrent_upload_limit: limit_bytes
limit_bytes_torrent(limit_kib) == IF limit_kib > 0 THEN limit_kib * 1024 ELSE 0 - 1

\* the call a handle method makes on the handle, with the limit it passes
handle_call(op, handle, args) ==
    IF op \in LimitOps
    THEN [call |-> handle_call_of(op), handle |-> handle,
          limit |-> limit_bytes_torrent(args.limit_kib)]
    ELSE [call |-> handle_call_of(op), handle |-> handle]

\* the block of pause, resume, set_file_priority, get_file_priorities and the
\* two per-torrent limits: the handle is looked up and called, the lock released
CallOnHandle(t) ==
    /\ pc[t] = "op_cs"
    /\ frame[t].op \in HandleOps
    /\ lock_owner' = "none"
    /\ ses_calls' = IF frame[t].info_hash \in DOMAIN handles
                    THEN with_call(handle_call(frame[t].op, handles[frame[t].info_hash],
                                               frame[t].args))
                    ELSE ses_calls
    /\ Return(t, IF frame[t].op = "get_file_priorities"
                 THEN PyList(IF frame[t].info_hash \in DOMAIN handles THEN <<"priority">> ELSE <<>>)
                 ELSE None)
    /\ UNCHANGED <<notEngine, storeVars, handles, ses_torrents>>

\* no flag, whatever the caller asks
flags_none(remove_data) == "0"

\* lt.session.delete_files if remove_data else 0
flags_of(remove_data) == IF remove_data THEN "delete_files" ELSE "0"

\* remove_torrent: the handle is popped, the session's remove_torrent called and
\* the record deleted; an error of either call leaves the method
RemoveTorrent(t) ==
    \E error \in {"none", "session", "store"} :
        /\ pc[t] = "op_cs"
        /\ frame[t].op = "remove_torrent"
        /\ IF frame[t].info_hash \in DOMAIN handles
           THEN /\ handles' = dict_pop(handles, frame[t].info_hash)
                /\ ses_torrents' = IF error = "session" THEN ses_torrents
                                   ELSE ses_torrents \ {handles[frame[t].info_hash]}
                /\ ses_calls' = with_call([call |-> "remove_torrent",
                                           handle |-> handles[frame[t].info_hash],
                                           flags |-> flags_of(frame[t].args.remove_data),
                                           raised |-> error = "session"])
                /\ db_torrents' = IF error = "none"
                                  THEN delete_from_torrents(db_torrents, hex_of(frame[t].info_hash))
                                  ELSE db_torrents
           ELSE UNCHANGED <<handles, ses_torrents, db_torrents, ses_calls>>
        /\ lock_owner' = "none"
        /\ IF frame[t].info_hash \in DOMAIN handles /\ error # "none"
           THEN Return(t, [raised |-> error])
           ELSE IF "caller" \in DOMAIN frame[t]
           THEN /\ pc' = [pc EXCEPT ![t] = "remove_row"]
                /\ frame' = [frame EXCEPT ![t] = [info_hash |-> frame[t].info_hash]]
           ELSE Return(t, None)
        /\ UNCHANGED <<notEngine, db_settings>>

\* get_torrent_files / trackers / peers: the lookup under the lock
LookupHandle(t) ==
    /\ pc[t] = "op_cs"
    /\ frame[t].op \in ListOps
    /\ lock_owner' = "none"
    /\ IF frame[t].info_hash \in DOMAIN handles
       THEN /\ frame' = [frame EXCEPT ![t] =
                            [op |-> frame[t].op, info_hash |-> frame[t].info_hash,
                             handle |-> handles[frame[t].info_hash]]]
            /\ pc' = [pc EXCEPT ![t] = "list_read"]
       ELSE Return(t, PyList(<<>>))
    /\ UNCHANGED <<notEngine, storeVars, handles, ses_torrents, ses_calls>>

\* get_torrent_files / trackers / peers: the calls on the handle, after the lock
ListRead(t) ==
    \E listing \in {<<>>, <<"item">>} :
        /\ pc[t] = "list_read"
        /\ ses_calls' = with_call([call |-> frame[t].op, handle |-> frame[t].handle])
        /\ Return(t, PyList(listing))
        /\ UNCHANGED <<notEngine, storeVars, handles, ses_torrents, lock_owner>>

\* the steps of the engine's methods taken by caller t
EngineStep(t) ==
    \/ AddTorrentFromFile(t) \/ AddTorrentByMagnet(t) \/ AddAcquire(t) \/ AddInsert(t)
    \/ AddPersist(t) \/ CallLocked(t) \/ CallOnHandle(t) \/ RemoveTorrent(t)
    \/ LookupHandle(t) \/ ListRead(t)

NextEngine == \E t \in Callers : EngineStep(t)

SpecEngine == InitStore /\ [][NextEngine]_vars

\* one caller, the UI thread, and a session that records the calls made on it

InitRecorded ==
    /\ InitBase
    /\ cfg = [bandwidth_schedules |-> <<>>, global_download_limit |-> 0, global_upload_limit |-> 0]
    /\ cfg_file = None
    /\ ses_settings = [download_rate_limit |-> 0, upload_rate_limit |-> 0]
    /\ ses_calls = [op |-> "none", args |-> None, calls |-> <<>>]

NextCalls == EngineStep(UiThread)

SpecCalls == InitRecorded /\ [][NextCalls]_vars

(***************************************************************************)
(* core/torrent_engine.py: load_session, at the start of the process       *)
(***************************************************************************)

\* Path(save_path) of a persisted save path: the absolute path written as it
StoredComponents == { "app", "downloads", "sub", "etc" }
path_of_str(str_path) ==
    CHOOSE p \in { AbsPath(l) : l \in UNION { [1..n -> StoredComponents] : n \in 0..3 } } :
        path_str(p.parts) = str_path

\* a load_session that adds as a caller does, is_loading False
is_loading_false == FALSE

\* the is_loading argument load_session passes
is_loading_of_load == TRUE

\* one pass of the loop of load_session: add_torrent_by_magnet or
\* add_torrent_from_file with is_loading; error is the exception of the add
\* (AddErrors): one raised before the session is called leaves no call, one
\* raised by the session's add_torrent leaves the call; the calls on the session
\* and on the store are recorded
load_one(acc, torrent_data, error) ==
    LET source == torrent_data.source
        checked == IF torrent_data.type = "magnet" THEN is_magnet(source)
                   ELSE path_exists(source)
        safe_save == safe_save_of(path_of_str(torrent_data.save_path))
        info_hash == info_hash_of(source)
    IN  IF torrent_data.type \notin {"magnet", "file"} \/ ~checked \/ error = "before"
        THEN acc
        ELSE IF error = "session"
        THEN [acc EXCEPT !.calls = Append(@, [call |-> "add_torrent", source |-> source,
                                              save_path |-> safe_save.str, raised |-> TRUE])]
        ELSE [handles |-> dict_set(acc.handles, info_hash, info_hash),
              ses_torrents |-> acc.ses_torrents \cup {info_hash},
              calls |-> Append(acc.calls, [call |-> "add_torrent", source |-> source,
                                           save_path |-> safe_save.str, raised |-> FALSE])
                        \o (IF is_loading_of_load THEN <<>>
                            ELSE <<[call |-> "save_torrent_info", source |-> source,
                                    save_path |-> safe_save.str, raised |-> FALSE]>>),
              db_torrents |->
                  IF is_loading_of_load THEN acc.db_torrents
                  ELSE replace_into_torrents(acc.db_torrents,
                           [info_hash |-> hex_of(info_hash), save_path |-> safe_save.str,
                            type |-> torrent_data.type, source |-> source])]

\* the exception of the k-th add of load_session: lost are the adds that fail,
\* early those of them that fail before the session is called
error_of(k, lost, early) ==
    IF k \notin lost THEN "none" ELSE IF k \in early THEN "before" ELSE "session"

\* load_session from the k-th of the saved torrents on
RECURSIVE load_session(_, _, _, _, _)
load_session(acc, saved_torrents, k, lost, early) ==
    IF k > Len(saved_torrents) THEN acc
    ELSE load_session(load_one(acc, saved_torrents[k], error_of(k, lost, early)),
                      saved_torrents, k + 1, lost, early)

\* the process is started again between two calls: TorrentEngine.__init__ with
\* a new session built from the configuration's settings, the shutdown flag
\* clear, the polling thread not yet started and no handle, then load_session
Restart ==
    \E fail \in DbFails, lost \in SUBSET (1..Len(db_torrents)) : \E early \in SUBSET lost :
        LET saved_torrents == load_torrents_info(db_torrents, TRUE, fail)
            loaded == load_session([handles |-> <<>>, ses_torrents |-> {}, calls |-> <<>>,
                                    db_torrents |-> db_torrents],
                                   saved_torrents, 1, lost, early)
        IN  /\ \A t \in Callers : pc[t] = "idle"
            /\ handles' = loaded.handles
            /\ ses_torrents' = loaded.ses_torrents
            /\ db_torrents' = loaded.db_torrents
            /\ ses_calls' = IF ses_calls = None THEN None
                            ELSE [op |-> "load_session",
                                  args |-> [failed |-> fail, lost |-> lost],
                                  calls |-> loaded.calls]
            /\ frame' = [t \in Callers |-> None]
            /\ ses_settings' = get_libtorrent_settings(cfg)
            /\ shutdown_flag' = FALSE
            /\ ses_alerts' = <<>>
            /\ eng_pc' = "test"
            /\ eng_alerts' = <<>>
            /\ UNCHANGED <<cfg, cfg_file, now, entry, modelVars, next_alert, alert_queue, ui_pc,
                           ui_alert, put_log, handled_log, last_call, db_settings, lock_owner,
                           pc>>

NextSession == EngineStep(UiThread) \/ Restart

SpecSession == InitRecorded /\ [][NextSession]_vars

(***************************************************************************)
(* utils/config.py: ConfigManager                                          *)
(***************************************************************************)

\* TorrentConfig(): the defaults of the dataclass
DefaultConfig ==
    [listen_port |-> 6881, listen_interfaces |-> "0.0.0.0:6881", max_connections |-> 200,
     max_uploads |-> 4, global_download_limit |-> 0, global_upload_limit |-> 0,
     download_path |-> "downloads", config_dir |-> "config", log_dir |-> "logs",
     window_width |-> 1200, window_height |-> 700, theme |-> "dark",
     piece_timeout |-> 30, request_timeout |-> 60, user_agent |-> "TorrentDownloader/1.0",
     enable_dht |-> TRUE, enable_lsd |-> TRUE, enable_upnp |-> TRUE, enable_natpmp |-> TRUE,
     cache_size |-> 32, disk_cache_algorithm |-> 0, bandwidth_schedules |-> <<>>]

\* the keys of the dictionary to_dict builds
ToDictKeys ==
    { "listen_port", "listen_interfaces", "max_connections", "max_uploads",
      "global_download_limit", "global_upload_limit", "download_path", "config_dir",
      "log_dir", "window_width", "window_height", "theme", "piece_timeout",
      "request_timeout", "user_agent", "enable_dht", "enable_lsd", "enable_upnp",
      "enable_natpmp", "cache_size", "disk_cache_algorithm" }

\* a to_dict that takes every field of the dataclass
to_dict_all_fields(c) == c

\* TorrentConfig.to_dict
to_dict(c) == [k \in ToDictKeys |-> c[k]]

\* TorrentConfig._validate_config: a port outside 1024..65535, a connection
\* limit below 1 and a cache size below 1 are replaced by the defaults
validate_config(c) ==
    [c EXCEPT !.listen_port = IF @ < 1024 \/ @ > 65535 THEN 6881 ELSE @,
              !.max_connections = IF @ < 1 THEN 200 ELSE @,
              !.cache_size = IF @ < 1 THEN 32 ELSE @]

\* TorrentConfig(): __post_init__ validates the values of the new object
NewTorrentConfig == validate_config(DefaultConfig)

\* TorrentConfig.update_from_dict: setattr for the keys the object has
update_from_dict(c, data) ==
    [k \in DOMAIN c |-> IF k \in DOMAIN data THEN data[k] ELSE c[k]]

\* the content of a file that open(..., 'w') truncated and whose write then
\* failed: empty or cut short, no JSON document
NotJson == [not_json |-> TRUE]

\* ConfigManager.__init__ with the file present: the defaults, updated from the
\* JSON object read; the defaults when reading fails or the content is no JSON
load_config(file, fail) ==
    IF fail \/ file = NotJson THEN NewTorrentConfig
    ELSE update_from_dict(NewTorrentConfig, file)

\* save_config, its exception caught and logged: the file written; left as it
\* was when open fails; truncated by open and cut short when the write fails
SaveOutcomes == { "written", "open_fails", "write_fails" }

save_config(c, file, outcome) ==
    IF outcome = "written" THEN to_dict(c)
    ELSE IF outcome = "open_fails" THEN file
    ELSE NotJson

\* the keyword arguments passed to update_config
ConfigUpdates ==
    { [listen_port |-> 7000], [theme |-> "light"], [enable_dht |-> FALSE],
      [global_download_limit |-> 123, global_upload_limit |-> 45],
      [bandwidth_schedules |-> << [start |-> Chars("2", "3", ":", "0", "0"),
                                   end |-> Chars("0", "7", ":", "0", "0"),
                                   dl |-> 200, ul |-> 50] >>],
      [bandwidth_schedules |-> <<>>], [theme |-> "dark"],
      [no_such_option |-> 1],
      [listen_port |-> 80], [max_connections |-> 0, cache_size |-> 0] }

\* update_config(**kwargs): update_from_dict, then save_config, which logs an
\* error of the write
UpdateConfig ==
    \E kwargs \in ConfigUpdates, outcome \in SaveOutcomes :
        /\ cfg' = update_from_dict(cfg, kwargs)
        /\ cfg_file' = save_config(cfg', cfg_file, outcome)
        /\ last_call' = [op |-> "update_config", kwargs |-> kwargs,
                         failed |-> outcome # "written"]
        /\ UNCHANGED <<now, entry, ses_settings, storeVars, modelVars, concVars>>

\* a ConfigManager constructed from the same file
NewConfigManager ==
    \E fail \in BOOLEAN :
        /\ cfg' = load_config(cfg_file, fail)
        /\ last_call' = [op |-> "ConfigManager", failed |-> fail]
        /\ UNCHANGED <<cfg_file, now, entry, ses_settings, storeVars, modelVars, concVars>>

\* the first ConfigManager, no file present: the defaults, saved
InitConfig ==
    /\ InitIdle
    /\ cfg = NewTorrentConfig
    /\ cfg_file = to_dict(NewTorrentConfig)
    /\ ses_settings = [download_rate_limit |-> 0, upload_rate_limit |-> 0]

NextConfig == UpdateConfig \/ NewConfigManager

SpecConfig == InitConfig /\ [][NextConfig]_vars

(***************************************************************************)
(* viewmodels/custom_proxy_model.py: CustomSortFilterProxyModel            *)
(***************************************************************************)

\* strings the filter looks into are sequences of characters
UpperCase == <<"A", "B", "C", "D", "E", "F", "G", "H", "I", "J", "K", "L", "M",
               "N", "O", "P", "Q", "R", "S", "T", "U", "V", "W", "X", "Y", "Z">>
LowerCase == <<"a", "b", "c", "d", "e", "f", "g", "h", "i", "j", "k", "l", "m",
               "n", "o", "p", "q", "r", "s", "t", "u", "v", "w", "x", "y", "z">>

\* str.lower
lower_char(c) ==
    IF \E i \in 1..Len(UpperCase) : UpperCase[i] = c
    THEN LowerCase[CHOOSE i \in 1..Len(UpperCase) : UpperCase[i] = c]
    ELSE c
lower(chars) == [i \in 1..Len(chars) |-> lower_char(chars[i])]

\* the operator in of two strings
str_in(needle, hay) ==
    \E i \in 0..(Len(hay) - Len(needle)) : SubSeq(hay, i + 1, i + Len(needle)) = needle

\* a STATUS_MAP with the label completed for Completed
STATUS_MAP_completed ==
    [Downloading |-> "downloading", Seeding |-> "seeding", Paused |-> "paused",
     Completed |-> "completed", Checking |-> "checking",
     Active |-> <<"downloading", "seeding", "checking">>]

STATUS_MAP ==
    [Downloading |-> "downloading", Seeding |-> "seeding", Paused |-> "paused",
     Completed |-> "finished", Checking |-> "checking",
     Active |-> <<"downloading", "seeding", "checking">>]

\* TorrentListModel.data for column 0, DisplayRole, and for column 6, UserRole
Fetching == <<"F", "e", "t", "c", "h", "i", "n", "g", ".", ".", ".">>
data_name(torrent) == IF "name" \in DOMAIN torrent THEN torrent.name ELSE Fetching
data_state(torrent) == IF "state_str" \in DOMAIN torrent THEN torrent.state_str ELSE "N/A"

\* filterAcceptsRow
filterAcceptsRow(p, rows, source_row) ==
    LET name == data_name(rows[source_row])
        status == data_state(rows[source_row])
        name_match == IF p.name_filter # <<>>
                      THEN str_in(lower(p.name_filter), lower(name))
                      ELSE TRUE
        status_match ==
            IF p.status_filter = "" \/ p.status_filter = "All" THEN TRUE
            ELSE IF p.status_filter = "Active"
                 THEN \E i \in 1..Len(STATUS_MAP["Active"]) : STATUS_MAP["Active"][i] = status
            ELSE IF p.status_filter \in DOMAIN STATUS_MAP
                 THEN status = STATUS_MAP[p.status_filter]
            ELSE FALSE
    IN  name_match /\ status_match

\* invalidateFilter: the source rows the proxy shows are those filterAcceptsRow accepts
invalidateFilter(p, rows) ==
    [p EXCEPT !.shown = { r \in 1..Len(rows) : filterAcceptsRow(p, rows, r) }]

\* CustomSortFilterProxyModel() and setSourceModel
NewProxyModel(rows) ==
    invalidateFilter([status_filter |-> "", name_filter |-> <<>>, shown |-> {}], rows)

\* the rows of the source model: names in both cases, every state label
\* process_alerts writes, a row with no name and a row with no state
SourceModels ==
    { << [info_hash |-> Sha1("h1"), name |-> <<"N", "e", "t">>, state_str |-> "downloading"],
         [info_hash |-> Sha1("h2"), name |-> <<"T", "E">>, state_str |-> "seeding"],
         [info_hash |-> Sha1("h3"), name |-> <<"e", "t", "E">>, state_str |-> "paused"],
         [info_hash |-> Sha1("h4"), name |-> <<"t", "e">>, state_str |-> "finished"],
         [info_hash |-> Sha1("h5"), state_str |-> "checking"],
         [info_hash |-> Sha1("h6"), name |-> <<"E">>] >>,
      << [info_hash |-> Sha1("h1"), name |-> <<"e", "E">>, state_str |-> "finished"],
         [info_hash |-> Sha1("h2"), name |-> <<"T", "t">>, state_str |-> "checking"],
         [info_hash |-> Sha1("h3"), name |-> <<>>, state_str |-> "unknown"],
         [info_hash |-> Sha1("h4"), name |-> <<"E", "t">>, state_str |-> "Active"],
         [info_hash |-> Sha1("h5"), name |-> <<"t", "E", "T">>, state_str |-> "finished"] >> }

\* the entries of the filter list of the main window, and other strings
StatusFilters ==
    { "", "All", "Active", "Downloading", "Seeding", "Paused", "Completed", "Checking",
      "Finished", "downloading", "Unknown" }

\* the texts of the search bar
FilterChars == { "e", "E", "t" }
NameFilters == UNION { [1..n -> FilterChars] : n \in 0..MaxFilterLen }

set_status_filter ==
    \E status \in StatusFilters :
        /\ proxy' = invalidateFilter([proxy EXCEPT !.status_filter = status], torrents)
        /\ last_call' = [op |-> "set_status_filter", status |-> status]
        /\ UNCHANGED <<schedVars, storeVars, torrents, concVars>>

set_name_filter ==
    \E text \in NameFilters :
        /\ proxy' = invalidateFilter([proxy EXCEPT !.name_filter = text], torrents)
        /\ last_call' = [op |-> "set_name_filter", text |-> text]
        /\ UNCHANGED <<schedVars, storeVars, torrents, concVars>>

\* the main window constructed on a filled display model
InitFilter ==
    /\ InitSession
    /\ torrents \in SourceModels
    /\ proxy = NewProxyModel(torrents)
    /\ ses_calls = None
    /\ cfg = [bandwidth_schedules |-> <<>>, global_download_limit |-> 0, global_upload_limit |-> 0]
    /\ cfg_file = None
    /\ ses_settings = [download_rate_limit |-> 0, upload_rate_limit |-> 0]

NextFilter == set_status_filter \/ set_name_filter

SpecFilter == InitFilter /\ [][NextFilter]_vars

(***************************************************************************)
(* ui/main_window.py: the actions on the selected torrent                  *)
(***************************************************************************)

\* pause_selected_torrent, resume_selected_torrent, remove_selected_torrent
SelectedOps == { "pause_torrent", "resume_torrent", "remove_torrent" }

\* the action's call of the engine with the info_hash of the selected row; the
\* engine method enters its "with self._lock"
ActOnSelectedTorrent ==
    \E op \in SelectedOps, row \in 1..Len(torrents) :
        LET info_hash == torrents[row].info_hash
            args == IF op = "remove_torrent" THEN [remove_data |-> FALSE] ELSE [none |-> TRUE]
        IN  /\ pc[UiThread] = "idle"
            /\ lock_is_free
            /\ lock_owner' = UiThread
            /\ frame' = [frame EXCEPT ![UiThread] =
                            IF op = "remove_torrent"
                            THEN [op |-> op, info_hash |-> info_hash, args |-> args,
                                  caller |-> "remove_selected_torrent"]
                            ELSE [op |-> op, info_hash |-> info_hash, args |-> args]]
            /\ pc' = [pc EXCEPT ![UiThread] = "op_cs"]
            /\ ses_calls' = begin_call(op, [info_hash |-> info_hash, more |-> args, row |-> row])
            /\ UNCHANGED <<notEngine, storeVars, handles, ses_torrents>>

\* remove_selected_torrent: self.torrent_model.remove_torrent(info_hash)
RemoveSelectedRow ==
    /\ pc[UiThread] = "remove_row"
    /\ torrents' = model_remove_torrent(torrents, frame[UiThread].info_hash)
    /\ UNCHANGED proxy
    /\ Return(UiThread, None)
    /\ UNCHANGED <<schedVars, alertVars, last_call, storeVars, handles, ses_torrents,
                   lock_owner, ses_calls>>

\* process_alerts on the UI thread, for one alert
ProcessAlert ==
    \E alert \in AlertBodies :
        /\ pc[UiThread] = "idle"
        /\ torrents' = handle_alert(torrents, alert)
        /\ UNCHANGED proxy
        /\ UNCHANGED <<schedVars, alertVars, last_call, storeVars, engineVars>>

NextUi == EngineStep(UiThread) \/ ActOnSelectedTorrent \/ RemoveSelectedRow \/ ProcessAlert

SpecUi == InitRecorded /\ [][NextUi]_vars

(***************************************************************************)
(* The UI thread's actions and alert ticks beside the polling thread       *)
(***************************************************************************)

\* the records of a torrent added from a file and of one added by a magnet link
SavedRecords ==
    << [info_hash |-> "h1", save_path |-> safe_save_of(RelPath(<<"sub">>)).str,
        type |-> "file", source |-> "/t/a.torrent"],
       [info_hash |-> "h2", save_path |-> safe_save_of(RelPath(<<"sub">>)).str,
        type |-> "magnet", source |-> "magnet:?xt=urn:btih:h2"] >>

\* the statuses of the torrents the session holds, one each
statuses_of(held) ==
    LET Held(status) == status.info_hash \in held
    IN  SelectSeq(<<StatusH1, StatusH2>>, Held)

\* post_torrent_updates of the polling loop: the session raises a state update
\* alert with the statuses of the torrents it holds
SessionPostUpdates ==
    /\ next_alert <= MaxAlerts
    /\ ses_torrents # {}
    /\ ses_alerts' = Append(ses_alerts, [id |-> next_alert, type |-> "state_update_alert",
                                         status |-> statuses_of(ses_torrents)])
    /\ next_alert' = next_alert + 1
    /\ UNCHANGED <<otherThanAlerts, modelVars, last_call, shutdown_flag, eng_pc, eng_alerts,
                   alert_queue, ui_pc, ui_alert, put_log, handled_log>>

\* the engine constructed by load_session on the two records, the display model
\* empty, the session a recording double
InitLoaded ==
    LET loaded == load_session([handles |-> <<>>, ses_torrents |-> {}, calls |-> <<>>,
                                db_torrents |-> SavedRecords], SavedRecords, 1, {}, {})
    IN  /\ InitEngine(SavedRecords, loaded.handles, loaded.ses_torrents)
        /\ torrents = <<>>
        /\ proxy = None
        /\ cfg = [bandwidth_schedules |-> <<>>, global_download_limit |-> 0,
                  global_upload_limit |-> 0]
        /\ cfg_file = None
        /\ ses_settings = [download_rate_limit |-> 0, upload_rate_limit |-> 0]
        /\ ses_calls = [op |-> "load_session", args |-> [failed |-> FALSE, lost |-> {}],
                        calls |-> loaded.calls]

\* the polling thread runs beside the UI thread, whose event loop runs one slot
\* at a time: an action on the selected torrent or an alert tick
NextTicks ==
    \/ SessionPostUpdates \/ RunTest \/ RunPop \/ RunError \/ RunPut \/ RunPost
    \/ (pc[UiThread] = "idle" /\ ProcessAlertsEnter)
    \/ ProcessAlertsGet \/ ProcessAlertsHandle
    \/ (ui_pc = "idle" /\ ActOnSelectedTorrent)
    \/ CallOnHandle(UiThread) \/ RemoveTorrent(UiThread) \/ RemoveSelectedRow

SpecTicks == InitLoaded /\ [][NextTicks]_vars

(***************************************************************************)
(* core/torrent_engine.py: the limits set by a caller                      *)
(***************************************************************************)

\* the pairs of limits passed to set_global_speed_limits
GlobalLimitInputs == { <<0 - 1, 50>>, <<0, 0>>, <<50, 0>> }

\* a call of set_global_speed_limits by the UI thread between two methods
SetGlobalSpeedLimits ==
    \E l \in GlobalLimitInputs, fail \in SetLimitsFails :
        /\ pc[UiThread] = "idle"
        /\ set_global_speed_limits(l[1], l[2], fail)
        /\ last_call' = [op |-> "set_global_speed_limits", dl_limit_kib |-> l[1],
                         ul_limit_kib |-> l[2], raised |-> fail # 0]
        /\ UNCHANGED <<cfg, cfg_file, now, entry, db_torrents, modelVars, concVars>>

\* the UI thread sets global limits and per-torrent limits and removes torrents
NextSetLimits ==
    \/ SetGlobalSpeedLimits
    \/ (CallLocked(UiThread) /\ frame'[UiThread].op \in LimitOps \cup {"remove_torrent"})
    \/ CallOnHandle(UiThread)
    \/ RemoveTorrent(UiThread)

SpecSetLimits == InitLoaded /\ [][NextSetLimits]_vars

(***************************************************************************)
(* Properties of the handle table's lock                                   *)
(***************************************************************************)

\* C4: every lookup and every mutation of the handle table happens while the
\* caller holds the engine's lock, and at most one thread is inside a
\* lock-guarded section at any time: a thread is at a statement inside
\* "with self._lock" exactly when it owns the lock, no two threads are, the
\* table changes only in a step of the lock's owner, and a handle is read out of
\* the table only in a step of the lock's owner.
C4_LockGuardsHandles ==
    /\ [](\A t \in Callers : pc[t] \in InLock <=> lock_owner = t)
    /\ [](Cardinality({ t \in Callers : pc[t] \in InLock }) <= 1)
    /\ [][ /\ handles' # handles =>
                \E t \in Callers : lock_owner = t /\ pc[t] \in InLock /\ pc'[t] \notin InLock
           /\ \A t \in Callers :
                (pc[t] # "list_read" /\ pc'[t] = "list_read") =>
                    /\ lock_owner = t
                    /\ frame'[t].handle = handles[frame[t].info_hash]
         ]_vars

\* one thread is inside the lock removing a handle that is in the table while
\* the other, the session having added a torrent for it, waits at the lock to
\* enter the handle of the same torrent
C4_Witness ==
    /\ pc["t1"] = "op_cs"
    /\ frame["t1"].op = "remove_torrent"
    /\ pc["t2"] = "add_lock"
    /\ frame["t1"].info_hash = frame["t2"].info_hash
    /\ frame["t1"].info_hash \in DOMAIN handles

(***************************************************************************)
(* Properties of the persistence shim                                      *)
(***************************************************************************)

\* the records a successful load_torrents_info returns for identifier h
RecordsFor(rows, h) ==
    LET Mine(x) == x.info_hash = h
    IN  SelectSeq(load_torrents_info(rows, TRUE, FALSE), Mine)

SavedOk(c) == c.op = "save_torrent_info" /\ ~c.raised
RemovedOk(c) == c.op = "remove_torrent_info" /\ ~c.raised

\* C8: after save_torrent_info(h, path, type, source) a load returns a record
\* with exactly those four values for h; after remove_torrent_info(h) a load
\* returns no record for h, and none appears until h is saved again; neither
\* operation changes the records of any other identifier.
C8_TorrentRoundTrip ==
    [][ /\ SavedOk(last_call') =>
            /\ RecordsFor(db_torrents', last_call'.info_hash) =
                   << [info_hash |-> last_call'.info_hash, save_path |-> last_call'.save_path,
                       type |-> last_call'.type, source |-> last_call'.source] >>
            /\ \A g \in InfoHashes \ {last_call'.info_hash} :
                   RecordsFor(db_torrents', g) = RecordsFor(db_torrents, g)
        /\ RemovedOk(last_call') =>
            /\ RecordsFor(db_torrents', last_call'.info_hash) = <<>>
            /\ \A g \in InfoHashes \ {last_call'.info_hash} :
                   RecordsFor(db_torrents', g) = RecordsFor(db_torrents, g)
        /\ \A h \in InfoHashes :
               (RecordsFor(db_torrents, h) = <<>> /\ ~(SavedOk(last_call') /\ last_call'.info_hash = h))
                   => RecordsFor(db_torrents', h) = <<>>
      ]_vars

\* a record was removed while the record of another identifier stayed
C8_Witness ==
    /\ RemovedOk(last_call)
    /\ last_call.rowcount = 1
    /\ Len(db_torrents) = 1
    /\ db_torrents[1].info_hash # last_call.info_hash

UniqueInfoHash ==
    \A i, j \in 1..Len(db_torrents) :
        i # j => db_torrents[i].info_hash # db_torrents[j].info_hash

\* C9: the store never holds two torrent records with the same info_hash, and a
\* successful save of an identifier that already has a record leaves the number
\* of rows unchanged and that identifier's single record holding the new values.
C9_UniqueIdentifier ==
    /\ []UniqueInfoHash
    /\ [][ (SavedOk(last_call') /\ RecordsFor(db_torrents, last_call'.info_hash) # <<>>) =>
              /\ Len(db_torrents') = Len(db_torrents)
              /\ RecordsFor(db_torrents', last_call'.info_hash) =
                     << [info_hash |-> last_call'.info_hash, save_path |-> last_call'.save_path,
                         type |-> last_call'.type, source |-> last_call'.source] >>
         ]_vars

\* an identifier that had a record was saved again, with save path "/dl/sub",
\* while another identifier has a record
C9_Witness ==
    /\ SavedOk(last_call)
    /\ last_call.conflict
    /\ last_call.save_path = "/dl/sub"
    /\ Len(db_torrents) = 2
    /\ db_torrents[2].info_hash = last_call.info_hash
    /\ db_torrents[2].save_path = "/dl/sub"

\* the string representation the specification gives for the values explored
ExpectedRepr(v) ==
    CASE v = PyInt(0) -> "0"
      [] v = PyInt(500) -> "500"
      [] v = PyStr("dark") -> "dark"

SettingSavedOk(c) == c.op = "save_setting" /\ ~c.raised

\* C10: after save_setting(k, v), load_setting(k, d) is the string representation
\* of v for every default d (the latest save wins) and the other keys load as
\* before; a key never saved loads as the supplied default.
C10_SettingRoundTrip ==
    /\ \A k \in SettingKeys, d \in SettingDefaults : load_setting(db_settings, k, d, TRUE, FALSE) = d
    /\ [][ /\ SettingSavedOk(last_call') =>
               /\ \A d \in SettingDefaults :
                      load_setting(db_settings', last_call'.key, d, TRUE, FALSE)
                          = PyStr(ExpectedRepr(last_call'.value))
               /\ \A k \in SettingKeys \ {last_call'.key}, d \in SettingDefaults :
                      load_setting(db_settings', k, d, TRUE, FALSE) = load_setting(db_settings, k, d, TRUE, FALSE)
           /\ \A k \in SettingKeys :
                  ( /\ \A d \in SettingDefaults : load_setting(db_settings, k, d, TRUE, FALSE) = d
                    /\ ~(SettingSavedOk(last_call') /\ last_call'.key = k) )
                  => \A d \in SettingDefaults : load_setting(db_settings', k, d, TRUE, FALSE) = d
         ]_vars

\* 500 was saved under a key, then loaded with a default, while the other key
\* holds a value too
C10_Witness ==
    /\ last_call.op = "load_setting"
    /\ last_call.ret = PyStr("500")
    /\ last_call.default = PyInt(0)
    /\ Len(db_settings) = 2

(***************************************************************************)
(* Properties of the engine's methods, one caller                          *)
(***************************************************************************)

AddPcs == { "add_lock", "add_cs", "add_save" }

\* the save directory of an add call resolves outside the download directory
Escapes(save_path) == sanitize_path(DownloadPath, save_path) = None

\* a step of an add call of t whose save directory escapes
EscapingAddStep(t) ==
    \/ pc[t] \in AddPcs /\ Escapes(frame[t].save_path)
    \/ pc'[t] \in AddPcs /\ Escapes(frame'[t].save_path)

\* C12: an add call whose save directory resolves outside the download
\* directory is rejected outright: it returns None, the external engine is not
\* asked to add the torrent, no handle is entered in the handle table and no
\* torrent record is persisted.
C12_EscapingSaveRejected ==
    [][ \A t \in Callers :
          EscapingAddStep(t) =>
              /\ ses_torrents' = ses_torrents
              /\ ses_calls'.calls = <<>>
              /\ handles' = handles
              /\ db_torrents' = db_torrents
              /\ pc'[t] = "idle" /\ frame'[t] = [ret |-> None]
      ]_vars

AddOps == { "add_torrent_from_file", "add_torrent_by_magnet" }

\* a torrent file that is missing, a link that is no magnet link
BadSources == { "/t/missing.torrent", "http://tracker/x" }

\* the step in which the UI thread calls an add method
AddCalled == pc[UiThread] = "idle" /\ ses_calls'.op \in AddOps

\* the call fails on its source, on an error raised before the session is
\* called (the method ends with no call made) or on one raised by the session
AddFails ==
    \/ ses_calls'.args.source \in BadSources
    \/ ses_calls'.calls = <<>>
    \/ \E i \in 1..Len(ses_calls'.calls) : ses_calls'.calls[i].raised

\* C13: an add call that fails because of a malformed magnet link, a missing
\* torrent file or an error raised by the external engine returns None to its
\* caller, has invoked the engine at most once, and leaves the handle table and
\* the persisted torrent records as they were before the call.
C13_FailedAddLeavesNothing ==
    [][ (AddCalled /\ AddFails) =>
            /\ pc'[UiThread] = "idle"
            /\ frame'[UiThread] = [ret |-> None]
            /\ Len(ses_calls'.calls) <= 1
            /\ handles' = handles
            /\ ses_torrents' = ses_torrents
            /\ db_torrents' = db_torrents
      ]_vars

\* with a handle in the table and a record in the store, an add by a link that
\* is no magnet link has returned None without a call of the engine
C13_Witness ==
    /\ pc[UiThread] = "idle"
    /\ frame[UiThread] = [ret |-> None]
    /\ ses_calls.op = "add_torrent_by_magnet"
    /\ ses_calls.args.source = "http://tracker/x"
    /\ ses_calls.calls = <<>>
    /\ DOMAIN handles # {}
    /\ db_torrents # <<>>

(***************************************************************************)
(* Properties of the store's error outcomes                                *)
(***************************************************************************)

ReadFailed(c) == ~c.exists \/ c.failed

WriteOps == { "save_torrent_info", "remove_torrent_info", "save_setting" }

\* C14: when the store is absent or a read fails, load_torrents_info returns the
\* empty list and load_setting returns the supplied default, without raising;
\* when a write fails, save_torrent_info, remove_torrent_info and save_setting
\* raise the error to their caller and the store's contents are unchanged.
C14_PersistenceErrors ==
    [][ /\ (last_call'.op = "load_torrents_info" /\ ReadFailed(last_call')) =>
                /\ last_call'.ret = <<>>
                /\ UNCHANGED storeVars
        /\ (last_call'.op = "load_setting" /\ ReadFailed(last_call')) =>
                /\ last_call'.ret = last_call'.default
                /\ UNCHANGED storeVars
        /\ (last_call'.op \in WriteOps /\ last_call'.raised) => UNCHANGED storeVars
      ]_vars

\* a read of a key failed while the store holds a value for it, and the default
\* was returned
C14_Witness ==
    /\ last_call.op = "load_setting"
    /\ last_call.failed
    /\ last_call.key = "theme"
    /\ last_call.default = PyStr("x")
    /\ last_call.ret = PyStr("x")
    /\ \E i \in 1..Len(db_settings) : db_settings[i] = [key |-> "theme", value |-> "dark"]
    /\ db_torrents # <<>>

(***************************************************************************)
(* Properties of shutdown                                                  *)
(***************************************************************************)

ShutdownReturned == last_call.op = "shutdown" /\ last_call.returned

\* C15: once shutdown has set the stop flag the polling loop begins no new
\* iteration after the one in progress, and stays stopped once it has stopped;
\* with each wait on the session returning it eventually terminates; shutdown
\* itself returns, whether or not the thread has stopped; and the alerts in the
\* queue when it is called remain unprocessed.
C15_Shutdown ==
    /\ [][ /\ (shutdown_flag /\ eng_pc = "test") => eng_pc' \in { "test", "stopped" }
           /\ eng_pc = "stopped" => eng_pc' = "stopped"
           /\ shutdown_flag => shutdown_flag'
           /\ shutdown_flag => (handled_log' = handled_log /\ torrents' = torrents)
         ]_vars
    /\ (shutdown_flag ~> eng_pc = "stopped")
    /\ (shutdown_flag ~> ShutdownReturned)

\* shutdown returned while the polling thread was still in an iteration, and
\* the thread then stopped with alerts left in the queue
C15_Witness ==
    /\ ShutdownReturned
    /\ last_call.is_alive
    /\ eng_pc = "stopped"
    /\ alert_queue # <<>>
    /\ handled_log # <<>>

(***************************************************************************)
(* Properties of remove, pause and resume                                  *)
(***************************************************************************)

\* the step of remove_torrent's locked block for an identifier in the table
RemovesPresent ==
    /\ pc[UiThread] = "op_cs"
    /\ frame[UiThread].op = "remove_torrent"
    /\ frame[UiThread].info_hash \in DOMAIN handles

\* the method returned to its caller without raising
ReturnedNormally == pc'[UiThread] = "remove_row" \/ frame'[UiThread] = [ret |-> None]

\* rows is before without its i-th row
WithoutRow(before, i, rows) ==
    /\ Len(rows) = Len(before) - 1
    /\ \A j \in 1..Len(rows) : rows[j] = before[IF j < i THEN j ELSE j + 1]

\* C16: after remove_torrent(id, remove_data) has returned for an identifier in
\* the handle table, the identifier is not in the table, the session's
\* remove_torrent was called exactly once, for that identifier's handle and with
\* the delete-files flag exactly when remove_data is true, and no persisted
\* record of the identifier remains; the UI's remove action then deletes the
\* identifier's status row: one row fewer, the others in their order.
C16_Remove ==
    [][ /\ (RemovesPresent /\ ReturnedNormally) =>
              LET h == frame[UiThread].info_hash
              IN  /\ h \notin DOMAIN handles'
                  /\ ses_calls'.calls =
                        << [call |-> "remove_torrent", handle |-> handles[h],
                            flags |-> IF frame[UiThread].args.remove_data
                                      THEN "delete_files" ELSE "0",
                            raised |-> FALSE] >>
                  /\ \A i \in 1..Len(db_torrents') : db_torrents'[i].info_hash # h.sha1
        /\ pc[UiThread] = "remove_row" =>
              \E i \in 1..Len(torrents) :
                  /\ torrents[i].info_hash = frame[UiThread].info_hash
                  /\ WithoutRow(torrents, i, torrents')
                  /\ UNCHANGED <<handles, db_torrents, ses_calls>>
      ]_vars

\* the UI's remove action on the second of two rows has finished: the engine
\* removed the torrent, which had a handle and a record, and one row is left
C16_Witness ==
    /\ pc[UiThread] = "idle"
    /\ frame[UiThread] = [ret |-> None]
    /\ ses_calls.op = "remove_torrent"
    /\ "row" \in DOMAIN ses_calls.args
    /\ ses_calls.args.row = 2
    /\ Len(ses_calls.calls) = 1
    /\ Len(torrents) = 1
    /\ torrents[1].info_hash # ses_calls.args.info_hash
    /\ DOMAIN handles = { torrents[1].info_hash }
    /\ Len(db_torrents) = 1

\* the methods the claim names for an identifier that is not in the table
NoOpWhenAbsent ==
    { "pause_torrent", "resume_torrent", "remove_torrent", "set_file_priority",
      "set_torrent_download_limit", "set_torrent_upload_limit" }

\* C17: pause_torrent(id) and resume_torrent(id) for an identifier in the handle
\* table call pause, respectively resume, on that identifier's handle exactly
\* once and call no other handle; for an identifier not in the table they, and
\* remove_torrent, set_file_priority and the two per-torrent limit methods, make
\* no call of the engine; in both cases the handle table and the persisted
\* records are unchanged.
C17_PauseResume ==
    [][ pc[UiThread] = "op_cs" =>
          LET op == frame[UiThread].op
              h == frame[UiThread].info_hash
          IN  /\ (op \in { "pause_torrent", "resume_torrent" } /\ h \in DOMAIN handles) =>
                    /\ ses_calls'.calls =
                          << [call |-> IF op = "pause_torrent" THEN "pause" ELSE "resume",
                              handle |-> handles[h]] >>
                    /\ handles[h] = h
                    /\ UNCHANGED <<handles, ses_torrents, storeVars>>
              /\ (op \in NoOpWhenAbsent /\ h \notin DOMAIN handles) =>
                    /\ ses_calls'.calls = <<>>
                    /\ UNCHANGED <<handles, ses_torrents, storeVars>>
      ]_vars

\* resume_torrent has returned for one of two identifiers in the table, with
\* one call made, on that identifier's handle
C17_Witness ==
    /\ pc[UiThread] = "idle"
    /\ ses_calls.op = "resume_torrent"
    /\ ses_calls.calls = << [call |-> "resume", handle |-> ses_calls.args.info_hash] >>
    /\ Cardinality(DOMAIN handles) = 2
    /\ Len(db_torrents) = 2

(***************************************************************************)
(* Properties of the configuration file                                    *)
(***************************************************************************)

\* the options of the configuration: the fields of TorrentConfig
ConfigOptions == DOMAIN DefaultConfig

\* C18: for every configuration option, the bandwidth schedule list included, a
\* value set through update_config is written to the configuration file and is
\* the value held by a ConfigManager constructed afterwards from that file.
C18_ConfigRoundTrip ==
    [][ (last_call'.op = "update_config" /\ ~last_call'.failed) =>
          \A k \in (DOMAIN last_call'.kwargs) \cap ConfigOptions :
              /\ k \in DOMAIN cfg_file'
              /\ cfg_file'[k] = last_call'.kwargs[k]
              /\ load_config(cfg_file', FALSE)[k] = last_call'.kwargs[k]
      ]_vars

(***************************************************************************)
(* Properties of the list filter                                           *)
(***************************************************************************)

\* the name filter is empty or occurs in the name, cases ignored
NameShown(text, name) == text = <<>> \/ str_in(lower(text), lower(name))

\* the status filter admits the state label
StatusShown(status, label) ==
    \/ status \in {"", "All"}
    \/ status = "Active" /\ label \in {"downloading", "seeding", "checking"}
    \/ status = "Downloading" /\ label = "downloading"
    \/ status = "Seeding" /\ label = "seeding"
    \/ status = "Paused" /\ label = "paused"
    \/ status = "Completed" /\ label = "finished"
    \/ status = "Checking" /\ label = "checking"

\* C19: a status row is shown exactly when the name filter is empty or occurs
\* case-insensitively in the row's name, and the status filter is empty or All,
\* or is Active with the state label one of downloading, seeding, checking, or is
\* Downloading/Seeding/Paused/Completed/Checking with the state label
\* downloading/seeding/paused/finished/checking; any other status filter shows
\* no row.
C19_Filter ==
    proxy # None =>
        \A r \in 1..Len(torrents) :
            r \in proxy.shown <=>
                /\ NameShown(proxy.name_filter, data_name(torrents[r]))
                /\ StatusShown(proxy.status_filter, data_state(torrents[r]))

\* both filters set, Completed with a text in the other case: a row shown that
\* matches both, a row hidden by the name, a row hidden by the state
C19_Witness ==
    /\ proxy # None
    /\ proxy.status_filter = "Completed"
    /\ proxy.name_filter = <<"E", "t">>
    /\ \E r \in proxy.shown : data_name(torrents[r]) = <<"t", "E", "T">>
    /\ \E r \in 1..Len(torrents) : r \notin proxy.shown /\ data_state(torrents[r]) = "finished"
    /\ \E r \in 1..Len(torrents) :
           /\ r \notin proxy.shown
           /\ data_state(torrents[r]) # "finished"
           /\ str_in(<<"e", "t">>, lower(data_name(torrents[r])))

(***************************************************************************)
(* Properties of the persisted records and the live handles                *)
(***************************************************************************)

\* the identifiers that have a persisted record, and those in the handle table
RecordIds(rows) == { rows[i].info_hash : i \in 1..Len(rows) }
HandleIds(table) == { k.sha1 : k \in DOMAIN table }

\* the store and the handle table agree; inside an add that has entered its
\* handle and has yet to save, they agree but for that identifier
Agree(rows, table, at, fr) ==
    IF at = "add_save"
    THEN HandleIds(table) = RecordIds(rows) \cup {fr.info_hash.sha1}
    ELSE HandleIds(table) = RecordIds(rows)

\* a step in which a call of the engine or of the store fails
CallFails ==
    \/ pc[UiThread] = "add_save" /\ frame'[UiThread] = [ret |-> None]
    \/ pc[UiThread] = "op_cs" /\ "ret" \in DOMAIN frame'[UiThread]
           /\ "raised" \in DOMAIN frame'[UiThread].ret
    \/ ses_calls'.op = "load_session"
           /\ (ses_calls'.args.failed \/ ses_calls'.args.lost # {})

\* C20: from a store and a handle table that agree, every step of add-by-file,
\* add-by-magnet and remove in which no call fails leaves the identifiers with
\* a persisted record equal to those in the handle table, and a restart
\* recreates a handle for exactly the persisted identifiers and leaves the
\* store as it is.
C20_RecordsAndHandles ==
    [][ (Agree(db_torrents, handles, pc[UiThread], frame[UiThread]) /\ ~CallFails) =>
            /\ Agree(db_torrents', handles', pc'[UiThread], frame'[UiThread])
            /\ (ses_calls'.op = "load_session") =>
                   /\ HandleIds(handles') = RecordIds(db_torrents)
                   /\ \A i \in 1..Len(ses_calls'.calls) :
                          ses_calls'.calls[i].call = "add_torrent"
                   /\ \A i \in 1..Len(db_torrents) :
                          \E j \in 1..Len(ses_calls'.calls) :
                              ses_calls'.calls[j].source = db_torrents[i].source
                   /\ UNCHANGED storeVars
      ]_vars

\* a restart after two adds, in the order file then magnet then file again, has
\* recreated both handles from the two records
C20_Witness ==
    /\ ses_calls.op = "load_session"
    /\ ~ses_calls.args.failed /\ ses_calls.args.lost = {}
    /\ Len(db_torrents) = 2
    /\ db_torrents[1].type = "magnet" /\ db_torrents[2].type = "file"
    /\ HandleIds(handles) = {"h1", "h2"}

(***************************************************************************)
(* Properties of the UI thread beside the polling thread                   *)
(***************************************************************************)

\* the UI's remove action has removed the identifier: no handle and no row of
\* it, the UI thread between two slots; no torrent is added in SpecTicks
Removed(h) ==
    /\ pc[UiThread] = "idle"
    /\ Sha1(h) \notin DOMAIN handles
    /\ rows_of(torrents, Sha1(h)) = {}

\* C21: once the UI remove action has removed an identifier, no later alert tick
\* re-creates a status row for it, whatever status alerts for it were in the
\* queue or are put on it afterwards, unless the torrent is added again.
C21_RemovedStaysRemoved ==
    [][ \A h \in InfoHashes : Removed(h) => rows_of(torrents', Sha1(h)) = {} ]_vars

(***************************************************************************)
(* Properties of the display model's rows                                  *)
(***************************************************************************)

\* C22: the display model holds at most one status row per identifier in every
\* reachable state: after any sequence of update_torrent_status, bulk_update
\* (a batch may name an identifier more than once) and remove_torrent calls, no
\* two rows share an info_hash.
C22_OneRowPerId ==
    \A i, j \in 1..Len(torrents) : torrents[i].info_hash = torrents[j].info_hash => i = j

\* update_torrent_status called on each update of the list in order
RECURSIVE update_each(_, _)
update_each(rows, updates) ==
    IF updates = <<>> THEN rows
    ELSE update_each(update_torrent_status(rows, Head(updates)), Tail(updates))

\* C23: for every model state and every list of updates, the rows after
\* bulk_update(updates) are identical in count, order and field values to the
\* rows after update_torrent_status on each update in order; an empty list
\* changes nothing.
C23_BulkIsEach ==
    /\ \A b \in Batches : bulk_update(torrents, b) = update_each(torrents, b)
    /\ bulk_update(torrents, <<>>) = torrents

(***************************************************************************)
(* Properties of the engine when the store fails                           *)
(***************************************************************************)

\* the step in which the store write of an add raises, for a torrent that had
\* no record
AddWriteRaises ==
    /\ pc[UiThread] = "add_save"
    /\ frame'[UiThread] = [ret |-> None]
    /\ frame[UiThread].info_hash.sha1 \notin { db_torrents[i].info_hash : i \in 1..Len(db_torrents) }

\* the step in which the store delete of a remove raises
RemoveDeleteRaises ==
    /\ pc[UiThread] = "op_cs"
    /\ frame[UiThread].op = "remove_torrent"
    /\ frame[UiThread].info_hash \in DOMAIN handles
    /\ frame'[UiThread] = [ret |-> [raised |-> "store"]]

\* C24: if the store write raises during add-by-file or add-by-magnet, after
\* the external engine accepted the torrent, the call returns None and the
\* handle table and the session contain no entry for the torrent; if the store
\* delete raises during remove, the handle is still in the table and the
\* torrent still in the session; in both cases the handle table and the
\* persisted records name the same identifiers.
C24_StoreFailureLeavesState ==
    [][ /\ AddWriteRaises =>
              /\ frame[UiThread].info_hash \notin DOMAIN handles'
              /\ frame[UiThread].info_hash \notin ses_torrents'
              /\ HandleIds(handles') = RecordIds(db_torrents')
        /\ RemoveDeleteRaises =>
              /\ frame[UiThread].info_hash \in DOMAIN handles'
              /\ frame[UiThread].info_hash \in ses_torrents'
              /\ HandleIds(handles') = RecordIds(db_torrents')
      ]_vars

(***************************************************************************)
(* Properties of the listings beside a remove                              *)
(***************************************************************************)

\* C25: no engine call is made on a handle that has been removed: under every
\* interleaving of get_torrent_files, get_torrent_trackers or get_torrent_peers
\* with a concurrent remove of the same identifier, the listing either returns
\* the empty list because the identifier is gone, or makes its calls on the
\* handle while the handle is in the table and its torrent in the session.
C25_NoCallOnRemovedHandle ==
    [][ \A t \in Callers :
            (pc[t] = "list_read" /\ pc'[t] = "idle") =>
                /\ frame[t].info_hash \in DOMAIN handles
                /\ frame[t].handle \in ses_torrents
      ]_vars

(***************************************************************************)
(* Properties of the global limits                                         *)
(***************************************************************************)

\* the byte rate that corresponds to a limit shown in KiB/s, 0 unlimited
BytesOfShown(kib) == IF kib = 0 THEN 0 ELSE kib * 1024

\* C26: in every reachable state from engine start-up onward, after any
\* sequence of settings-dialog changes and scheduler ticks, the rate limits
\* applied to the external engine correspond to the persisted settings dl_limit
\* and ul_limit that the settings dialog loads and displays.
C26_LimitsAgree ==
    /\ ses_settings.download_rate_limit = BytesOfShown(dialog_values(db_settings, FALSE, FALSE).dl_limit)
    /\ ses_settings.upload_rate_limit = BytesOfShown(dialog_values(db_settings, FALSE, FALSE).ul_limit)

(***************************************************************************)
(* Properties of one alert tick                                            *)
(***************************************************************************)

\* the step of the try block for the alert in hand
HandlesAlert == ui_pc = "handle" /\ ui_pc' = "loop"

\* C27: one alert tick takes alerts off the queue until it observes the queue
\* empty; an exception raised while handling one alert is caught and the alerts
\* behind it are handled in the same tick; an alert that is not a state update
\* leaves the display model unchanged, and a state update results in exactly
\* one bulk update carrying one status row per torrent status of the alert.
C27_AlertTick ==
    [][ /\ (ui_pc = "loop" /\ alert_queue # <<>>) =>
              (ui_pc' = "handle" /\ ui_alert' = Head(alert_queue)
                 /\ alert_queue' = Tail(alert_queue))
           \/ (ui_pc' = "loop" /\ UNCHANGED <<ui_alert, handled_log, torrents>>)
        /\ (ui_pc # "idle" /\ ui_pc' = "idle") => (ui_pc = "loop" /\ alert_queue = <<>>)
        /\ HandlesAlert =>
              /\ handled_log' = Append(handled_log, ui_alert.id)
              /\ last_call'.raised => torrents' = torrents
              /\ ui_alert.type # "state_update_alert" => torrents' = torrents
              /\ (ui_alert.type = "state_update_alert" /\ ~last_call'.raised) =>
                    \E rows \in [1..Len(ui_alert.status) -> { status_row(StatusH1), status_row(StatusH2) }] :
                        /\ \A i \in 1..Len(rows) : rows[i] = status_row(ui_alert.status[i])
                        /\ torrents' = bulk_update(torrents, rows)
      ]_vars

\* an exception was raised for one alert and the state update of two statuses
\* behind it is in hand, a row in the model from an alert before
C27_Witness ==
    /\ ui_pc = "handle"
    /\ last_call.op = "process_alerts" /\ last_call.raised
    /\ last_call.alert = handled_log[Len(handled_log)]
    /\ ui_alert.type = "state_update_alert"
    /\ Len(ui_alert.status) = 2
    /\ Len(torrents) = 1

(***************************************************************************)
(* Properties of the limit conversions                                     *)
(***************************************************************************)

\* the decimal text of the limits passed
Decimal(kib) == CASE kib = 0 - 1 -> "-1" [] kib = 0 -> "0" [] kib = 50 -> "50"

\* the value persisted under key, a set of at most one text
Persisted(rows, key) == { rows[i].value : i \in { j \in 1..Len(rows) : rows[j].key = key } }

\* C28: set_global_speed_limits(dl, ul) applies kib*1024 bytes/s for each limit
\* kib > 0 and 0 for kib <= 0, and persists the unconverted KiB values under
\* dl_limit and ul_limit; the per-torrent download and upload limit methods
\* apply kib*1024 for kib > 0 and -1 for kib <= 0 to the handle of a known
\* identifier, so that an input of 0 means unlimited.
C28_LimitConversion ==
    [][ /\ (last_call'.op = "set_global_speed_limits" /\ last_call' # last_call) =>
              LET dl == last_call'.dl_limit_kib
                  ul == last_call'.ul_limit_kib
              IN  /\ ses_settings'.download_rate_limit = IF dl > 0 THEN dl * 1024 ELSE 0
                  /\ ses_settings'.upload_rate_limit = IF ul > 0 THEN ul * 1024 ELSE 0
                  /\ ~last_call'.raised =>
                        /\ Persisted(db_settings', "dl_limit") = {Decimal(dl)}
                        /\ Persisted(db_settings', "ul_limit") = {Decimal(ul)}
        /\ (pc[UiThread] = "op_cs" /\ frame[UiThread].op \in LimitOps
               /\ frame[UiThread].info_hash \in DOMAIN handles) =>
              LET kib == frame[UiThread].args.limit_kib
              IN  ses_calls'.calls =
                     << [call |-> IF frame[UiThread].op = "set_torrent_download_limit"
                                  THEN "set_download_limit" ELSE "set_upload_limit",
                         handle |-> handles[frame[UiThread].info_hash],
                         limit |-> IF kib > 0 THEN kib * 1024 ELSE 0 - 1] >>
        /\ (pc[UiThread] = "op_cs" /\ frame[UiThread].op \in LimitOps
               /\ frame[UiThread].info_hash \notin DOMAIN handles) =>
              ses_calls'.calls = <<>>
      ]_vars

\* the global limits were set to 50 and unlimited and persisted as 50 and 0,
\* and an upload limit of 0 reached a handle as -1
C28_Witness ==
    /\ ses_settings = [download_rate_limit |-> 51200, upload_rate_limit |-> 0]
    /\ Persisted(db_settings, "dl_limit") = {"50"}
    /\ Persisted(db_settings, "ul_limit") = {"0"}
    /\ ses_calls.op = "set_torrent_upload_limit"
    /\ Len(ses_calls.calls) = 1
    /\ ses_calls.calls[1].limit = 0 - 1

(***************************************************************************)
(* Properties of the status row                                            *)
(***************************************************************************)

\* the label mapped from an engine state, unknown for a state not listed
MappedLabel(state) ==
    CASE state = "checking_files" -> "checking"
      [] state = "downloading_metadata" -> "metadata"
      [] state = "downloading" -> "downloading"
      [] state = "finished" -> "finished"
      [] state = "seeding" -> "seeding"
      [] state = "allocating" -> "allocating"
      [] state = "checking_resume_data" -> "checking resume"
      [] OTHER -> "unknown"

\* the statement of the label without regard to the libtorrent build: paused
\* exactly when the torrent's paused flag is set and its engine state maps to
\* neither seeding nor finished, otherwise the label mapped from the engine
\* state
C29_AsStated ==
    last_call.op = "status_row" =>
        LET status == last_call.status
            label == last_call.row.state_str
            mapped == MappedLabel(status.state)
        IN  /\ label = "paused" <=> (status.paused /\ mapped \notin {"seeding", "finished"})
            /\ label # "paused" => label = mapped
            /\ (status.paused /\ status.state \in {"seeding", "finished"}) => label # "paused"

\* C29: on a libtorrent build that has torrent_flags, the state label of a
\* status row is paused exactly when the torrent's paused flag is set and its
\* engine state maps to neither seeding nor finished; on a build without
\* torrent_flags it is never paused; whenever it is not paused it is the label
\* mapped from the engine state, or unknown for an unmapped state; a paused
\* torrent that is seeding or finished is never labelled paused.
C29_StateLabel ==
    last_call.op = "status_row" =>
        LET status == last_call.status
            label == last_call.row.state_str
            mapped == MappedLabel(status.state)
        IN  /\ label = "paused" <=>
                  (status.torrent_flags /\ status.paused
                      /\ mapped \notin {"seeding", "finished"})
            /\ label # "paused" => label = mapped
            /\ (status.paused /\ status.state \in {"seeding", "finished"}) => label # "paused"

\* the row of a paused torrent has been built: on a build without
\* torrent_flags a paused torrent that is downloading is labelled downloading
C29_Witness ==
    /\ last_call.op = "status_row"
    /\ last_call.status.paused
    /\ ~last_call.status.torrent_flags
    /\ last_call.status.state = "downloading"
    /\ last_call.row.state_str = "downloading"

(***************************************************************************)
(* Properties of the validated configuration                               *)
(***************************************************************************)

\* C30: the configuration object in use always has listen_port within
\* 1024..65535, max_connections at least 1 and cache_size at least 1: after
\* construction, after loading the configuration file and after any
\* update_config / update_from_dict call.
C30_ValidatedConfig ==
    /\ cfg.listen_port \in 1024..65535
    /\ cfg.max_connections >= 1
    /\ cfg.cache_size >= 1

====
